---- MODULE Spec2Model ----
(***************************************************************************)
(* A model of the resume screener's scoring pipeline:                      *)
(*   backend/services/matching.py   MatchingService  (hard / soft match)   *)
(*   backend/services/scoring.py    ScoringEngine    (fusion, verdict)     *)
(*   backend/services/embedding.py  EmbeddingService (vector store)        *)
(*   backend/config.py              Config                                 *)
(*                                                                         *)
(* Numbers.  Python floats are modelled as exact rationals [n, d] in       *)
(* lowest terms with d > 0, so that every score is a canonical value.      *)
(* Strings that the code inspects character by character (skills,          *)
(* certifications, degrees) are sequences of one-character strings; texts  *)
(* that the code scans with regular expressions are sequences of tokens.   *)
(***************************************************************************)
EXTENDS Integers, Sequences, FiniteSets, TLC

VARIABLES
    \* --- MatchingService.calculate_hard_match, applied to drawn inputs
    mResume,        \* the resume dict passed to calculate_hard_match
    mJob,           \* the job dict passed to calculate_hard_match
    mScores,        \* the dict it returned (NoResult before the first call)
    mPrev,          \* the job and the result of the call before the last one
    \* --- ScoringEngine
    cfg,            \* Config: the weights and thresholds read at import
    sJob,           \* the job dict passed to evaluate_resume / batch_evaluate
    sBatch,         \* the list of resume dicts the caller holds
    sEval,          \* what the last evaluate_resume call returned
    sBatchOut,      \* what the last batch_evaluate call returned
    \* --- EmbeddingService
    resume_index,   \* self.resume_index: the IndexIDMap, a sequence of (id, vector)
    resume_meta,    \* self.resume_meta: str(id) -> {resume_id, metadata}
    job_index,      \* self.job_index
    job_meta,       \* self.job_meta
    disk,           \* the four persisted files under FAISS_PERSIST_DIR
    lastOp,         \* the last call made on the service and what it returned
    nStores,        \* number of store calls made so far
    \* --- one MatchingService called from several threads
    vectorizer,     \* self.tfidf_vectorizer: what its TfidfTransformer has fitted
    calls,          \* per thread: the calculate_soft_match call it is inside
    log,            \* the calls that returned: arguments, result, overlap
    \* --- two writers storing into one persistence directory
    shared,         \* TRUE: two threads on one EmbeddingService; FALSE: two services
    memory,         \* per service: its resume_index and resume_meta
    writer,         \* per writer: where it is in store_resume_embedding
    \* --- _str_to_id applied by the services of the process
    idLog,          \* the applications made: service, record id, numeric id
    \* --- the evaluation endpoints of app.py over LocalStorage
    mongodb,        \* the resumes, jobs and evaluations collections
    response        \* the last request and the HTTP response it got

matchVars == <<mResume, mJob, mScores, mPrev>>
scoreVars == <<cfg, sJob, sBatch, sEval, sBatchOut>>
storeVars == <<resume_index, resume_meta, job_index, job_meta, disk, lastOp, nStores>>
softVars == <<vectorizer, calls, log>>
vars == <<mResume, mJob, mScores, mPrev, cfg, sJob, sBatch, sEval, sBatchOut,
          resume_index, resume_meta, job_index, job_meta, disk, lastOp, nStores,
          vectorizer, calls, log, shared, memory, writer, idLog,
          mongodb, response>>
raceVars == <<shared, memory, writer>>
idVars == <<idLog>>
apiVars == <<mongodb, response>>

(***************************************************************************)
(* Bounds of the model.                                                    *)
(***************************************************************************)
MaxReq == 2        \* longest required_skills list drawn for a job
MaxBatch == 2      \* longest list of resumes handed to batch_evaluate
MaxStores == 3     \* store calls made on one EmbeddingService
MaxCalls == 3      \* calls made on one MatchingService
MaxWrites == 2     \* store calls made by one writer
MaxIds == 3        \* applications of _str_to_id
MaxEvals == 2      \* stored evaluations after which no request is made

(***************************************************************************)
(* Exact rational arithmetic (the values Python computes in floats).       *)
(***************************************************************************)
Abs(x) == IF x < 0 THEN -x ELSE x

RECURSIVE GCD(_, _)
GCD(a, b) == IF b = 0 THEN a ELSE GCD(b, a % b)

Rat(n, d) ==
    LET s == IF d < 0 THEN -1 ELSE 1
        g == GCD(Abs(n), Abs(d))
    IN  [n |-> (s * n) \div g, d |-> (s * d) \div g]

RInt(k) == [n |-> k, d |-> 1]
RAdd(a, b) == Rat(a.n * b.d + b.n * a.d, a.d * b.d)
RMul(a, b) == Rat(a.n * b.n, a.d * b.d)
RLe(a, b) == a.n * b.d <= b.n * a.d
RLt(a, b) == a.n * b.d < b.n * a.d
RGe(a, b) == RLe(b, a)
RGt(a, b) == RLt(b, a)
\* k percent, as the literal 0.5 is 50 percent
Pct(k) == Rat(k, 100)

\* floor(a / b) for b > 0 and any integer a
FloorDiv(a, b) == IF a >= 0 THEN a \div b ELSE -((-a + b - 1) \div b)

Max(a, b) == IF a >= b THEN a ELSE b

(***************************************************************************)
(* Strings as sequences of characters.                                     *)
(***************************************************************************)
UpperAlpha == <<"A","B","C","D","E","F","G","H","I","J","K","L","M",
               "N","O","P","Q","R","S","T","U","V","W","X","Y","Z">>
LowerAlpha == <<"a","b","c","d","e","f","g","h","i","j","k","l","m",
               "n","o","p","q","r","s","t","u","v","w","x","y","z">>

\* str.lower() on one character
LowerChar(c) ==
    IF \E i \in DOMAIN UpperAlpha : UpperAlpha[i] = c
    THEN LowerAlpha[CHOOSE i \in DOMAIN UpperAlpha : UpperAlpha[i] = c]
    ELSE c

\* str.lower()
Lower(s) == [i \in DOMAIN s |-> LowerChar(s[i])]

\* [x.lower() for x in xs]
LowerAll(xs) == [i \in DOMAIN xs |-> Lower(xs[i])]

\* Python's  a in b  on strings
IsSubstring(a, b) ==
    \E i \in 0..(Len(b) - Len(a)) : SubSeq(b, i + 1, i + Len(a)) = a

\* ' '.join(xs)
RECURSIVE JoinSpace(_)
JoinSpace(xs) ==
    IF Len(xs) = 0 THEN <<>>
    ELSE IF Len(xs) = 1 THEN xs[1]
    ELSE xs[1] \o <<" ">> \o JoinSpace(Tail(xs))

(***************************************************************************)
(* rapidfuzz.fuzz, as used by _fuzzy_skill_match.                          *)
(*   ratio(a, b) = 100 * 2 * LCS(a, b) / (len(a) + len(b)), the normalized *)
(*   Indel similarity; partial_ratio(a, b) is the best ratio of the        *)
(*   shorter string against the substrings of the longer one that its      *)
(*   sliding window visits (leading prefixes, full windows, trailing       *)
(*   suffixes).                                                            *)
(***************************************************************************)
RECURSIVE LCS(_, _, _, _)
LCS(a, b, i, j) ==
    IF i = 0 \/ j = 0 THEN 0
    ELSE IF a[i] = b[j] THEN 1 + LCS(a, b, i - 1, j - 1)
    ELSE Max(LCS(a, b, i - 1, j), LCS(a, b, i, j - 1))

\* fuzz.ratio, times (len(a) + len(b)) kept exact as a rational percentage
FuzzRatio(a, b) ==
    IF Len(a) + Len(b) = 0 THEN RInt(100)
    ELSE Rat(200 * LCS(a, b, Len(a), Len(b)), Len(a) + Len(b))

\* the substrings of the longer string l that a window of Len(s) visits
PartialWindows(s, l) ==
    { SubSeq(l, 1, i) : i \in 1..(Len(s) - 1) }
    \cup { SubSeq(l, i + 1, i + Len(s)) : i \in 0..(Len(l) - Len(s) - 1) }
    \cup { SubSeq(l, i + 1, Len(l)) : i \in (Len(l) - Len(s))..(Len(l) - 1) }

\* some window of l reaches the threshold against s (Len(s) <= Len(l))
PartialImplReaches(s, l, threshold) ==
    \E w \in PartialWindows(s, l) : RGe(FuzzRatio(s, w), RInt(threshold))

\* fuzz.partial_ratio(a, b) >= threshold
PartialRatioReaches(a, b, threshold) ==
    IF Len(a) = 0 \/ Len(b) = 0 THEN Len(a) = Len(b) /\ 100 >= threshold
    ELSE IF Len(a) < Len(b) THEN PartialImplReaches(a, b, threshold)
    ELSE IF Len(b) < Len(a) THEN PartialImplReaches(b, a, threshold)
    ELSE PartialImplReaches(a, b, threshold) \/ PartialImplReaches(b, a, threshold)

\* one iteration of the loop of _fuzzy_skill_match
FuzzyPair(skill, resume_skill, threshold) ==
    \/ RGe(FuzzRatio(skill, resume_skill), RInt(threshold))
    \/ PartialRatioReaches(skill, resume_skill, threshold)

DefaultThreshold == 80
CertThreshold == 70

\* the strings the callers use
Str ==
    [ python |-> <<"p","y","t","h","o","n">>,
      Python_ |-> <<"P","y","t","h","o","n">>,
      pyton |-> <<"p","y","t","o","n">>,
      sql |-> <<"s","q","l">>,
      docker |-> <<"d","o","c","k","e","r">>,
      AWS |-> <<"A","W","S">>,
      pmp |-> <<"p","m","p">>,
      PMP |-> <<"P","M","P">>,
      cka |-> <<"c","k","a">>,
      cissp |-> <<"c","i","s","s","p">>,
      bsc |-> <<"b","s","c">>,
      BSc |-> <<"B","S","c">>,
      msc |-> <<"m","s","c">>,
      cs |-> <<"c","s">> ]

\* every skill, certification and degree string of the inputs, as given and
\* lowercased
Strings ==
    LET given == {Str.python, Str.Python_, Str.pyton, Str.sql, Str.docker, Str.AWS,
                  Str.pmp, Str.PMP, Str.cka, Str.cissp, Str.bsc, Str.BSc, Str.msc, Str.cs}
    IN  given \cup { Lower(x) : x \in given }

\* FuzzyPair, evaluated once per pair of strings
FuzzyMemo ==
    [skill \in Strings, resume_skill \in Strings, t \in {DefaultThreshold, CertThreshold} |->
        FuzzyPair(skill, resume_skill, t)]

\* MatchingService._fuzzy_skill_match
_fuzzy_skill_match(skill, resume_skills, threshold) ==
    \E i \in DOMAIN resume_skills : FuzzyMemo[skill, resume_skills[i], threshold]

(***************************************************************************)
(* Free text scanned by regular expressions: a sequence of whitespace      *)
(* separated tokens, a run of digits N(v) or any other word W(w).          *)
(***************************************************************************)
N(v) == [k |-> "num", v |-> v, w |-> <<>>]
W(w) == [k |-> "word", v |-> 0, w |-> w]

Word ==
    [ years |-> <<"y","e","a","r","s">>,
      year |-> <<"y","e","a","r">>,
      of |-> <<"o","f">>,
      experience |-> <<"e","x","p","e","r","i","e","n","c","e">>,
      working |-> <<"w","o","r","k","i","n","g">>,
      from |-> <<"f","r","o","m">>,
      to |-> <<"t","o">>,
      the |-> <<"t","h","e">>,
      and |-> <<"a","n","d">>,
      developer |-> <<"d","e","v","e","l","o","p","e","r">>,
      developers |-> <<"d","e","v","e","l","o","p","e","r","s">>,
      data |-> <<"d","a","t","a">>,
      engineer |-> <<"e","n","g","i","n","e","e","r">>,
      sales |-> <<"s","a","l","e","s">>,
      manager |-> <<"m","a","n","a","g","e","r">>,
      senior |-> <<"s","e","n","i","o","r">>,
      python |-> <<"p","y","t","h","o","n">>,
      sql |-> <<"s","q","l">> ]

IsNum(text, i) == i \in DOMAIN text /\ text[i].k = "num"
\* the patterns are searched with re.IGNORECASE
IsWord(text, i, ws) ==
    i \in DOMAIN text /\ text[i].k = "word" /\ Lower(text[i].w) \in ws
IsYears(text, i) == IsWord(text, i, {Word.year, Word.years})

\* r'(\d+)[\+\s]*years?\s+(?:of\s+)?experience' matches with its digits at token i
Pattern1At(text, i) ==
    /\ IsNum(text, i) /\ IsYears(text, i + 1)
    /\ \/ IsWord(text, i + 2, {Word.experience})
       \/ IsWord(text, i + 2, {Word.of}) /\ IsWord(text, i + 3, {Word.experience})

\* r'experience[:\s]+(\d+)[\+\s]*years?' matches with its digits at token i
Pattern2At(text, i) ==
    IsWord(text, i - 1, {Word.experience}) /\ IsNum(text, i) /\ IsYears(text, i + 1)

\* r'(\d+)[\+\s]*years?\s+working' matches with its digits at token i
Pattern3At(text, i) ==
    IsNum(text, i) /\ IsYears(text, i + 1) /\ IsWord(text, i + 2, {Word.working})

PatternAt(p, text, i) ==
    CASE p = 1 -> Pattern1At(text, i)
      [] p = 2 -> Pattern2At(text, i)
      [] OTHER -> Pattern3At(text, i)

\* re.search gives the leftmost match of pattern p
FirstMatch(p, text) ==
    CHOOSE i \in DOMAIN text :
        PatternAt(p, text, i) /\ \A j \in 1..(i - 1) : ~PatternAt(p, text, j)

\* re.findall(r'20\d{2}', text)
YearMentions(text) ==
    SelectSeq(text, LAMBDA t : t.k = "num" /\ t.v >= 2000 /\ t.v <= 2099)

SeqMax(xs) == CHOOSE x \in {xs[i].v : i \in DOMAIN xs} :
                  \A y \in {xs[i].v : i \in DOMAIN xs} : y <= x
SeqMin(xs) == CHOOSE x \in {xs[i].v : i \in DOMAIN xs} :
                  \A y \in {xs[i].v : i \in DOMAIN xs} : x <= y

\* MatchingService._extract_experience_years
_extract_experience_years(text) ==
    LET hit(p) == \E i \in DOMAIN text : PatternAt(p, text, i)
    IN  IF hit(1) THEN text[FirstMatch(1, text)].v
        ELSE IF hit(2) THEN text[FirstMatch(2, text)].v
        ELSE IF hit(3) THEN text[FirstMatch(3, text)].v
        ELSE IF Len(YearMentions(text)) >= 2
             THEN SeqMax(YearMentions(text)) - SeqMin(YearMentions(text))
             ELSE 0

\* MatchingService._match_education: a fraction in [0, 1]
_match_education(resume_education, job_requirements) ==
    IF Len(job_requirements) = 0 THEN RInt(1)
    ELSE
    LET resume_degrees ==
            [i \in 1..(2 * Len(resume_education)) |->
                IF i % 2 = 1 THEN Lower(resume_education[(i + 1) \div 2].degree)
                             ELSE Lower(resume_education[i \div 2].context)]
        resume_text == JoinSpace(resume_degrees)
        matches == Len(SelectSeq(job_requirements,
                           LAMBDA req : IsSubstring(Lower(req), resume_text)))
    IN  Rat(matches, Len(job_requirements))

(***************************************************************************)
(* A job's max_experience: the key may be missing from the dict, hold an   *)
(* int, or hold None (JobDescription.max_experience defaults to None).     *)
(***************************************************************************)
Absent == [k |-> "absent", v |-> 0]
None == [k |-> "none", v |-> 0]
IntVal(v) == [k |-> "int", v |-> v]

NoResult == [raised |-> FALSE, returned |-> FALSE]
Raised == [raised |-> TRUE, returned |-> FALSE]

\* a variant of required_score that gives nothing for an empty list
RequiredScore_zero(nMatched, nRequired) ==
    IF nRequired > 0 THEN RMul(Rat(nMatched, nRequired), RInt(70)) ELSE RInt(0)

\* a variant of required_score that takes a single required skill for none
RequiredScore_single(nMatched, nRequired) ==
    IF nRequired > 1 THEN RMul(Rat(nMatched, nRequired), RInt(70)) ELSE RInt(70)

\* required_score, lines 53-56
RequiredScore(nMatched, nRequired) ==
    IF nRequired > 0 THEN RMul(Rat(nMatched, nRequired), RInt(70)) ELSE RInt(70)

\* optional_score, lines 58-61
OptionalScore(nMatched, nOptional) ==
    IF nOptional > 0 THEN RMul(Rat(nMatched, nOptional), RInt(30)) ELSE RInt(30)

\* a variant that scales the years by min_experience above it as below it
ExperienceScore_scaled(resume_exp, min_exp, max_exp) ==
    IF min_exp > 0 THEN RMul(Rat(resume_exp, min_exp), RInt(100)) ELSE RInt(100)

\* scores['experience_match'], lines 73-82 (max_exp already an int)
ExperienceScore(resume_exp, min_exp, max_exp) ==
    IF resume_exp >= min_exp
    THEN IF resume_exp <= max_exp THEN RInt(100) ELSE RInt(80)
    ELSE IF min_exp > 0 THEN RMul(Rat(resume_exp, min_exp), RInt(100)) ELSE RInt(100)

\* overall_score, lines 119-131
OverallHard(skills, experience, education, certification) ==
    RAdd(RAdd(RMul(skills, Pct(50)), RMul(experience, Pct(30))),
         RAdd(RMul(education, Pct(15)), RMul(certification, Pct(5))))

\* MatchingService.calculate_hard_match
calculate_hard_match(resume, job_desc) ==
    LET resume_skills == LowerAll(resume.skills)
        required_skills == LowerAll(job_desc.required_skills)
        optional_skills == LowerAll(job_desc.optional_skills)
        hits(s) == _fuzzy_skill_match(s, resume_skills, DefaultThreshold)
        matched_required == SelectSeq(required_skills, hits)
        missing_required == SelectSeq(required_skills, LAMBDA s : ~hits(s))
        matched_optional == SelectSeq(optional_skills, hits)
        skills_match ==
            RAdd(RequiredScore(Len(matched_required), Len(required_skills)),
                 OptionalScore(Len(matched_optional), Len(optional_skills)))
        min_exp == job_desc.min_experience
        max_exp == IF job_desc.max_experience = Absent
                   THEN IntVal(IF min_exp >= 0 THEN min_exp + 10 ELSE 10)
                   ELSE job_desc.max_experience
        resume_exp == _extract_experience_years(resume.raw_text)
        \* resume_exp <= None is a TypeError
        typeError == resume_exp >= min_exp /\ max_exp = None
        experience_match == ExperienceScore(resume_exp, min_exp, max_exp.v)
        education_match ==
            IF Len(job_desc.education_requirements) > 0 /\ Len(resume.education) > 0
            THEN RMul(_match_education(resume.education,
                                       job_desc.education_requirements), RInt(100))
            ELSE RInt(100)
        resume_certs == LowerAll(resume.certifications)
        required_certs == LowerAll(job_desc.certifications_required)
        certHits(c) == _fuzzy_skill_match(c, resume_certs, CertThreshold)
        matched_certs == SelectSeq(required_certs, certHits)
        missing_certs == SelectSeq(required_certs, LAMBDA c : ~certHits(c))
        certification_match ==
            IF Len(required_certs) > 0
            THEN RMul(Rat(Len(matched_certs), Len(required_certs)), RInt(100))
            ELSE RInt(100)
    IN  IF typeError THEN Raised
        ELSE [raised |-> FALSE, returned |-> TRUE,
              skills_match |-> skills_match,
              education_match |-> education_match,
              experience_match |-> experience_match,
              certification_match |-> certification_match,
              matched_skills |-> matched_required \o matched_optional,
              missing_skills |-> missing_required,
              matched_certifications |-> matched_certs,
              missing_certifications |-> missing_certs,
              resume_experience |-> resume_exp,
              overall_hard_match |->
                  OverallHard(skills_match, experience_match,
                              education_match, certification_match)]

(***************************************************************************)
(* The inputs the callers draw from.                                       *)
(***************************************************************************)
SeqsUpTo(S, n) == UNION { [1..k -> S] : k \in 0..n }

T_none == <<>>
T_5yrs == <<N(5), W(Word.years), W(Word.of), W(Word.experience)>>
T_1yr == <<W(Word.experience), N(1), W(Word.year)>>
T_span == <<W(Word.from), N(2019), W(Word.to), N(2021)>>
T_12yrs == <<N(12), W(Word.years), W(Word.working)>>
T_1998 == <<W(Word.from), N(1998), W(Word.to), N(2005)>>

\* processed texts
TA == <<W(Word.python), W(Word.developer)>>
TB == <<W(Word.data), W(Word.engineer)>>
TC == <<W(Word.sales), W(Word.manager)>>
TD == <<W(Word.senior), W(Word.python), W(Word.developers)>>
TEmpty == <<>>

\* embeddings: vectors with integer coordinates in units of 1 / VecUnit, so
\* that <<3, 4>> is the unit vector (0.6, 0.8)
VecUnit == 5
ZeroVec == <<0, 0>>
NoEmbedding == <<>>

MkResume(id, skills, education, certifications, raw_text, processed_text, embeddings) ==
    [id |-> id, skills |-> skills, education |-> education,
     certifications |-> certifications, raw_text |-> raw_text,
     processed_text |-> processed_text, embeddings |-> embeddings]

ResumePool ==
    { MkResume("r1", <<Str.Python_, Str.AWS>>, <<[degree |-> Str.BSc, context |-> Str.cs]>>, <<Str.PMP>>,
               T_5yrs, TA, NoEmbedding),
      MkResume("r2", <<Str.sql>>, <<>>, <<>>, T_1yr, TB, <<3, 4>>),
      MkResume("r3", <<>>, <<>>, <<>>, T_none, TEmpty, NoEmbedding),
      MkResume("r4", <<Str.docker, Str.Python_>>, <<[degree |-> Str.msc, context |-> <<>>]>>, <<>>,
               T_12yrs, TC, NoEmbedding),
      MkResume("r5", <<Str.Python_, Str.AWS>>, <<[degree |-> Str.BSc, context |-> Str.cs]>>, <<Str.PMP>>,
               T_5yrs, TA, NoEmbedding),
      MkResume("r6", <<Str.pyton>>, <<>>, <<>>, T_span, TB, NoEmbedding),
      MkResume("r7", <<Str.Python_>>, <<[degree |-> Str.BSc, context |-> Str.cs]>>, <<Str.PMP>>,
               T_1yr, TA, NoEmbedding) }

MkJob(id, required_skills, optional_skills, min_experience, max_experience, education_requirements, certifications_required, processed_text, embeddings) ==
    [id |-> id, required_skills |-> required_skills,
     optional_skills |-> optional_skills, min_experience |-> min_experience,
     max_experience |-> max_experience,
     education_requirements |-> education_requirements,
     certifications_required |-> certifications_required,
     processed_text |-> processed_text, embeddings |-> embeddings]

RequiredVocab == {Str.python, Str.sql, Str.docker}
OptionalLists == {<<>>, <<Str.docker>>, <<Str.docker, Str.python>>}

\* the rest of a job: experience range, education, certifications
JobProfiles ==
    { MkJob("j1", <<>>, <<>>, 0, Absent, <<>>, <<>>, TA, NoEmbedding),
      MkJob("j2", <<>>, <<>>, 3, Absent, <<Str.bsc>>, <<Str.pmp>>, TB, NoEmbedding),
      MkJob("j3", <<>>, <<>>, 2, IntVal(4), <<Str.bsc, Str.msc>>, <<Str.pmp, Str.cka>>, TB, <<5, 0>>),
      MkJob("j4", <<>>, <<>>, 3, None, <<>>, <<>>, TEmpty, NoEmbedding) }

MatchJobs ==
    { [p EXCEPT !.required_skills = req, !.optional_skills = opt] :
        p \in JobProfiles, req \in SeqsUpTo(RequiredVocab, MaxReq), opt \in OptionalLists }

(***************************************************************************)
(* calculate_hard_match applied by a caller: first to a drawn resume and   *)
(* job, then again to the same resume and the job with one more required   *)
(* skill.                                                                  *)
(***************************************************************************)
NoDict == [id |-> ""]
NoPrev == [job |-> NoDict, scores |-> NoResult]

\* the resumes drawn for calculate_hard_match: those of the pool and one
\* whose raw text dates a job before 2000
MatchResumes ==
    ResumePool \cup {MkResume("r8", <<>>, <<>>, <<>>, T_1998, TB, NoEmbedding)}

MatchInit ==
    /\ mResume \in MatchResumes
    /\ mJob \in MatchJobs
    /\ mScores = NoResult
    /\ mPrev = NoPrev

MatchIdle ==
    /\ mResume = NoDict /\ mJob = NoDict /\ mScores = NoResult /\ mPrev = NoPrev

HardMatch ==
    /\ mJob # NoDict
    /\ mScores = NoResult
    /\ mScores' = calculate_hard_match(mResume, mJob)
    /\ mPrev' = [job |-> mJob, scores |-> mScores]
    /\ UNCHANGED <<mResume, mJob>>

HardMatchAmended(skill) ==
    /\ mJob # NoDict
    /\ mScores # NoResult
    /\ Len(mJob.required_skills) < MaxReq
    /\ mJob' = [mJob EXCEPT !.required_skills = Append(@, skill)]
    /\ mScores' = calculate_hard_match(mResume, mJob')
    /\ mPrev' = [job |-> mJob, scores |-> mScores]
    /\ UNCHANGED mResume

(***************************************************************************)
(* EmbeddingService: the encoder and the cosine similarity.                *)
(***************************************************************************)
\* self.model.encode(text, normalize_embeddings=True): a frozen encoder, a
\* fixed unit vector per text
Encode(text) ==
    CASE text = TA -> <<5, 0>>
      [] text = TB -> <<3, 4>>
      [] text = TC -> <<-4, -3>>
      [] text = TD -> <<4, 3>>
      [] OTHER -> <<0, 5>>

\* EmbeddingService.generate_embeddings
generate_embeddings(text) ==
    IF Len(text) = 0 THEN ZeroVec ELSE Encode(text)

Dot(a, b) == a[1] * b[1] + a[2] * b[2]

\* np.linalg.norm, in units of 1 / VecUnit (the vectors drawn have integer norms)
Norm(v) == CHOOSE n \in 0..(Abs(v[1]) + Abs(v[2])) : n * n = Dot(v, v)

\* EmbeddingService.calculate_similarity
calculate_similarity(embedding1, embedding2) ==
    IF Norm(embedding1) = 0 \/ Norm(embedding2) = 0 THEN RInt(0)
    ELSE RMul(Rat(Dot(embedding1, embedding2), Norm(embedding1) * Norm(embedding2)),
              RInt(100))

(***************************************************************************)
(* MatchingService.calculate_soft_match.                                   *)
(***************************************************************************)
Digits == <<"0","1","2","3","4","5","6","7","8","9">>

\* str(v) for v >= 0
RECURSIVE NumStr(_)
NumStr(v) == IF v < 10 THEN <<Digits[v + 1]>> ELSE NumStr(v \div 10) \o <<Digits[(v % 10) + 1]>>

\* the characters of a token, lowercased
TokStr(t) == IF t.k = "num" THEN NumStr(t.v) ELSE Lower(t.w)

\* \w
IsWordChar(c) ==
    \/ \E i \in DOMAIN LowerAlpha : LowerAlpha[i] = c \/ UpperAlpha[i] = c
    \/ \E i \in DOMAIN Digits : Digits[i] = c
    \/ c = "_"

\* re.sub(r'[^\w\s]', '', word)
StripPunct(word) == SelectSeq(word, IsWordChar)

\* the stop_words of _extract_keywords
KeywordStopWords ==
    { <<"t","h","e">>, <<"i","s">>, <<"a","t">>, <<"w","h","i","c","h">>,
      <<"o","n">>, <<"a","n","d">>, <<"a">>, <<"a","n">>, <<"a","s">>,
      <<"a","r","e">>, <<"w","a","s">>, <<"w","e","r","e">>, <<"b","e">>,
      <<"b","e","e","n">>, <<"b","e","i","n","g">>, <<"h","a","v","e">>,
      <<"h","a","s">>, <<"h","a","d">>, <<"d","o">>, <<"d","o","e","s">>,
      <<"d","i","d">>, <<"w","i","l","l">>, <<"w","o","u","l","d">>,
      <<"c","o","u","l","d">>, <<"s","h","o","u","l","d">>, <<"m","a","y">>,
      <<"m","i","g","h","t">> }

\* top_n: int = 20
TopN == 20

\* list(dict.fromkeys(xs)): the first occurrence of every element, in order
RECURSIVE Dedup(_)
Dedup(xs) ==
    IF Len(xs) = 0 THEN <<>>
    ELSE LET init == Dedup(SubSeq(xs, 1, Len(xs) - 1))
             last == xs[Len(xs)]
         IN  IF \E i \in DOMAIN init : init[i] = last THEN init ELSE Append(init, last)

\* MatchingService._extract_keywords
_extract_keywords(text) ==
    LET words == [i \in DOMAIN text |-> StripPunct(TokStr(text[i]))]
        keywords == SelectSeq(words, LAMBDA w : Len(w) > 3 /\ w \notin KeywordStopWords)
        unique == Dedup(keywords)
    IN  SubSeq(unique, 1, IF Len(unique) < TopN THEN Len(unique) ELSE TopN)

\* keyword in resume_text.lower(): a keyword holds no whitespace, so it lies
\* within one token of the text
KeywordInText(keyword, resume_text) ==
    \E i \in DOMAIN resume_text : IsSubstring(keyword, TokStr(resume_text[i]))

\* scores['keyword_density'], lines 163-166
KeywordDensity(resume_text, job_text) ==
    LET job_keywords == _extract_keywords(job_text)
        keyword_matches ==
            Len(SelectSeq(job_keywords, LAMBDA kw : KeywordInText(kw, resume_text)))
    IN  IF Len(job_keywords) > 0
        THEN RMul(Rat(keyword_matches, Len(job_keywords)), RInt(100))
        ELSE RInt(0)

\* words of scikit-learn's English stop word list that the texts drawn use
EnglishStopWords == { Word.the, Word.and, Word.of, Word.to, Word.from }

\* TfidfVectorizer's analyzer: lowercase, tokens of two or more word
\* characters, stop words dropped, then unigrams and bigrams
TfidfTokens(text) ==
    SelectSeq([i \in DOMAIN text |-> StripPunct(TokStr(text[i]))],
              LAMBDA w : Len(w) >= 2 /\ w \notin EnglishStopWords)

TfidfTerms(text) ==
    LET toks == TfidfTokens(text)
    IN  IF Len(toks) = 0 THEN <<>>
        ELSE [i \in 1..Len(toks) |-> <<toks[i]>>]
             \o [i \in 1..(Len(toks) - 1) |-> <<toks[i], toks[i + 1]>>]

TermCount(term, terms) == Cardinality({ i \in DOMAIN terms : terms[i] = term })

\* floor of the square root
ISqrt(x) == CHOOSE r \in 0..x : r * r <= x /\ (r + 1) * (r + 1) > x

\* the characters in code point order, for sorted(vocabulary)
CharOrder ==
    <<" ">> \o Digits \o UpperAlpha \o <<"_">> \o LowerAlpha

CharRank(c) == CHOOSE i \in DOMAIN CharOrder : CharOrder[i] = c

\* a < b on strings
RECURSIVE StrLess(_, _)
StrLess(a, b) ==
    IF Len(a) = 0 THEN Len(b) > 0
    ELSE IF Len(b) = 0 THEN FALSE
    ELSE IF a[1] = b[1] THEN StrLess(Tail(a), Tail(b))
    ELSE CharRank(a[1]) < CharRank(b[1])

\* the terms of the two documents
Vocabulary(resume_text, job_text) ==
    LET ra == TfidfTerms(resume_text)
        jb == TfidfTerms(job_text)
    IN  { ra[i] : i \in DOMAIN ra } \cup { jb[i] : i \in DOMAIN jb }

\* the columns of the count matrix: the vocabulary, sorted
FeatureNames(vocabulary) ==
    LET position(t) ==
            1 + Cardinality({ u \in vocabulary : StrLess(JoinSpace(u), JoinSpace(t)) })
    IN  [i \in 1..Cardinality(vocabulary) |-> CHOOSE t \in vocabulary : position(t) = i]

\* CountVectorizer.fit_transform([resume_text, job_text]): the term counts of
\* the two documents, a value local to the call
CountMatrix(resume_text, job_text) ==
    LET names == FeatureNames(Vocabulary(resume_text, job_text))
    IN  <<[i \in DOMAIN names |-> TermCount(names[i], TfidfTerms(resume_text))],
          [i \in DOMAIN names |-> TermCount(names[i], TfidfTerms(job_text))]>>

\* the fitted state of the vectorizer's TfidfTransformer: the document
\* frequency of every column (the idf is a function of it), or not fitted
Unfitted == [fitted |-> FALSE, df |-> <<>>]
Fitted(df) == [fitted |-> TRUE, df |-> df]

\* TfidfTransformer.fit(X)
TfidfFit(X) ==
    Fitted([i \in DOMAIN X[1] |-> (IF X[1][i] > 0 THEN 1 ELSE 0)
                                   + (IF X[2][i] > 0 THEN 1 ELSE 0)])

\* sum of f over 1..n
RECURSIVE SumTo(_, _)
SumTo(f(_), n) == IF n = 0 THEN 0 ELSE f(n) + SumTo(f, n - 1)

\* TfidfTransformer.transform(X) under the fitted state, then the cosine of
\* the two rows as a percentage.  A state that is not fitted, or fitted for
\* another number of columns, makes transform raise, which the caller turns
\* into 0.  The square of the idf is 1 for document frequency 2 and is taken
\* as 79/40 for document frequency 1 (1 + ln(3/2) squared); the cosine is cut
\* to whole percents, and is exact when it is 0 or 100.
TfidfCosine(X, state) ==
    IF ~state.fitted \/ Len(state.df) # Len(X[1]) THEN RInt(0)
    ELSE LET w(i) == IF state.df[i] = 2 THEN 40 ELSE 79
             dot == SumTo(LAMBDA i : w(i) * X[1][i] * X[2][i], Len(X[1]))
             sq1 == SumTo(LAMBDA i : w(i) * X[1][i] * X[1][i], Len(X[1]))
             sq2 == SumTo(LAMBDA i : w(i) * X[2][i] * X[2][i], Len(X[1]))
         IN  IF dot = 0 THEN RInt(0)
             ELSE RInt(ISqrt((10000 * dot * dot) \div (sq1 * sq2)))

\* scores['tfidf_similarity'] of a call during which no other call touches
\* the vectorizer: fit_transform, then the cosine of the two rows
TfidfSimilarity(resume_text, job_text) ==
    IF Vocabulary(resume_text, job_text) = {} THEN RInt(0)     \* ValueError, caught
    ELSE TfidfCosine(CountMatrix(resume_text, job_text),
                     TfidfFit(CountMatrix(resume_text, job_text)))

\* a variant that weighs TF-IDF and embedding alike
OverallSoft_even(tfidf, embedding, keywords) ==
    RAdd(RAdd(RMul(tfidf, Pct(40)), RMul(embedding, Pct(40))), RMul(keywords, Pct(20)))

\* the weighted sum, lines 169-179
OverallSoft(tfidf, embedding, keywords) ==
    RAdd(RAdd(RMul(tfidf, Pct(30)), RMul(embedding, Pct(50))), RMul(keywords, Pct(20)))

\* MatchingService._cosine_similarity
_cosine_similarity(vec1, vec2) ==
    IF Norm(vec1) = 0 \/ Norm(vec2) = 0 THEN RInt(0)
    ELSE Rat(Dot(vec1, vec2), Norm(vec1) * Norm(vec2))

\* the scores dict, given the TF-IDF similarity found (lines 157-181)
SoftScores(tfidf_similarity, resume_text, job_text, resume_embedding, job_embedding) ==
    LET embedding_similarity ==
            IF resume_embedding # NoEmbedding /\ job_embedding # NoEmbedding
            THEN RMul(_cosine_similarity(resume_embedding, job_embedding), RInt(100))
            ELSE RInt(0)
        keyword_density == KeywordDensity(resume_text, job_text)
    IN  [tfidf_similarity |-> tfidf_similarity,
         embedding_similarity |-> embedding_similarity,
         keyword_density |-> keyword_density,
         overall_soft_match |->
             OverallSoft(tfidf_similarity, embedding_similarity, keyword_density)]

\* MatchingService.calculate_soft_match, no other call running
calculate_soft_match(resume_text, job_text, resume_embedding, job_embedding) ==
    SoftScores(TfidfSimilarity(resume_text, job_text), resume_text, job_text,
               resume_embedding, job_embedding)

(***************************************************************************)
(* ScoringEngine.                                                          *)
(***************************************************************************)
MkConfig(w_hard, w_soft, high, medium) ==
    [HARD_MATCH_WEIGHT |-> w_hard, SOFT_MATCH_WEIGHT |-> w_soft,
     HIGH_THRESHOLD |-> high, MEDIUM_THRESHOLD |-> medium]

\* backend/config.py: the defaults
DefaultConfig == MkConfig(Pct(40), Pct(60), RInt(75), RInt(50))

\* x or generate_embeddings(text): None and the empty list are falsy
OrEmbedding(field, text) ==
    IF field # NoEmbedding THEN field ELSE generate_embeddings(text)

\* a variant of the clamp that lets every value through
Clamp_none(x) == x

\* the clamp, lines 38-42
Clamp(x) ==
    IF RGt(x, RInt(100)) THEN RInt(100)
    ELSE IF RLt(x, RInt(0)) THEN RInt(0)
    ELSE x

\* round(x, 2): to the nearest hundredth, ties to the even hundredth
Round2(x) ==
    LET q == FloorDiv(100 * x.n, x.d)
        twiceRem == 2 * (100 * x.n - q * x.d)
        up == twiceRem > x.d \/ (twiceRem = x.d /\ q % 2 = 1)
    IN  Rat(IF up THEN q + 1 ELSE q, 100)

\* the verdict, lines 60-65
Verdict(relevance_score, c) ==
    IF RGe(relevance_score, c.HIGH_THRESHOLD) THEN "HIGH"
    ELSE IF RGe(relevance_score, c.MEDIUM_THRESHOLD) THEN "MEDIUM"
    ELSE "LOW"

\* xs[:6]
FirstSix(xs) == SubSeq(xs, 1, IF Len(xs) < 6 THEN Len(xs) ELSE 6)

\* ScoringEngine.generate_feedback: each sentence is kept as the skills it lists
generate_feedback(matched_skills, missing_skills) ==
    [strengths |-> IF Len(matched_skills) > 0
                   THEN <<[text |-> "Matched skills", skills |-> FirstSix(matched_skills)]>>
                   ELSE <<>>,
     improvements |-> IF Len(missing_skills) > 0
                      THEN <<[text |-> "Missing key skills",
                              skills |-> FirstSix(missing_skills)]>>
                      ELSE <<>>,
     suggestions |-> IF Len(missing_skills) > 0
                     THEN <<"Consider projects or a micro-course to demonstrate these skills.">>
                     ELSE <<>>]

\* the soft score that evaluate_resume fuses, lines 26-29
SoftScore(resume, job_desc) ==
    calculate_similarity(OrEmbedding(resume.embeddings, resume.processed_text),
                         OrEmbedding(job_desc.embeddings, job_desc.processed_text))

\* the weighted combination, line 36
Combine(hard_score, soft_score, c) ==
    RAdd(RMul(hard_score, c.HARD_MATCH_WEIGHT), RMul(soft_score, c.SOFT_MATCH_WEIGHT))

\* the evaluation record, lines 31-70
Evaluation(resume_id, job_id, hard_match_results, soft_score, c) ==
    LET hard_score == hard_match_results.overall_hard_match
        relevance_score == Clamp(Combine(hard_score, soft_score, c))
    IN  [raised |-> FALSE, returned |-> TRUE,
         resume_id |-> resume_id,
         job_id |-> job_id,
         relevance_score |-> Round2(relevance_score),
         hard_match_score |-> Round2(hard_score),
         soft_match_score |-> Round2(soft_score),
         matched_skills |-> hard_match_results.matched_skills,
         missing_skills |-> hard_match_results.missing_skills,
         resume_experience |-> hard_match_results.resume_experience,
         verdict |-> Verdict(relevance_score, c),
         feedback |-> generate_feedback(hard_match_results.matched_skills,
                                        hard_match_results.missing_skills)]

\* what a call gives whose hard match gave hard_match_results
EvaluationOrRaised(resume_id, job_id, hard_match_results, soft_score, c) ==
    IF hard_match_results.raised THEN Raised
    ELSE Evaluation(resume_id, job_id, hard_match_results, soft_score, c)

\* ScoringEngine.evaluate_resume
evaluate_resume(resume, job_desc, c) ==
    EvaluationOrRaised(resume.id, job_desc.id, calculate_hard_match(resume, job_desc),
                       SoftScore(resume, job_desc), c)

\* a variant of the sort that places an element ahead of its equals
InsertDesc_ahead(sorted, e) ==
    LET ahead == { i \in DOMAIN sorted :
                     \A j \in 1..i : RGt(sorted[j].relevance_score, e.relevance_score) }
        k == Cardinality(ahead)
    IN  SubSeq(sorted, 1, k) \o <<e>> \o SubSeq(sorted, k + 1, Len(sorted))

\* list.sort(key=relevance_score, reverse=True): a stable sort, every element
\* is placed behind the elements whose key is not smaller
InsertDesc(sorted, e) ==
    LET ahead == { i \in DOMAIN sorted :
                     \A j \in 1..i : RGe(sorted[j].relevance_score, e.relevance_score) }
        k == Cardinality(ahead)
    IN  SubSeq(sorted, 1, k) \o <<e>> \o SubSeq(sorted, k + 1, Len(sorted))

RECURSIVE SortDesc(_)
SortDesc(xs) ==
    IF Len(xs) = 0 THEN <<>>
    ELSE InsertDesc(SortDesc(SubSeq(xs, 1, Len(xs) - 1)), xs[Len(xs)])

(***************************************************************************)
(* The scoring engine applied by a caller: Config is read once, the caller *)
(* holds a job and a list of resumes and evaluates one resume or all.      *)
(***************************************************************************)
ConfigPool ==
    { DefaultConfig,
      MkConfig(Pct(50), RInt(1), RInt(75), RInt(50)),
      MkConfig(Pct(40), Pct(60), Rat(6667, 100), Rat(3333, 100)),
      MkConfig(RInt(1), Pct(-50), RInt(75), RInt(50)) }

JobPool ==
    { MkJob("j1", <<Str.python, Str.sql>>, <<Str.docker>>, 0, Absent, <<>>, <<>>, TA, NoEmbedding),
      MkJob("j2", <<Str.python>>, <<>>, 3, Absent, <<Str.bsc>>, <<Str.pmp>>, TB, NoEmbedding),
      MkJob("j3", <<Str.python, Str.sql, Str.docker>>, <<>>, 2, IntVal(4), <<Str.bsc, Str.msc>>, <<Str.pmp, Str.cka>>,
            TB, <<5, 0>>),
      MkJob("j4", <<Str.sql>>, <<>>, 3, None, <<>>, <<>>, TEmpty, NoEmbedding),
      MkJob("j5", <<>>, <<>>, 0, Absent, <<>>, <<>>, TD, NoEmbedding),
      MkJob("j6", <<Str.python>>, <<>>, 3, Absent, <<Str.bsc>>, <<Str.pmp, Str.cka, Str.cissp>>, TB, NoEmbedding) }

\* two resumes that differ only in the embedding they carry: parallel to the
\* embedding of job j7, and a hair off it (a vector of norm 40001)
NearParallel == <<39999, 400>>

ScoreResumes ==
    ResumePool \cup
        { MkResume("r9", <<Str.Python_>>, <<>>, <<>>, T_none, TA, NearParallel),
          MkResume("r10", <<Str.Python_>>, <<>>, <<>>, T_none, TA, <<5, 0>>) }

ScoreJobs ==
    JobPool \cup
        { MkJob("j7", <<Str.python, Str.sql>>, <<Str.docker>>, 3, Absent, <<>>, <<>>, TA, <<5, 0>>) }

\* evaluate_resume, evaluated once per resume, job and configuration
EvalMemo ==
    [resume \in ScoreResumes, job_desc \in ScoreJobs, c \in ConfigPool |->
        evaluate_resume(resume, job_desc, c)]

\* ScoringEngine.batch_evaluate
batch_evaluate(resumes, job_desc, c) ==
    LET evaluations == [i \in DOMAIN resumes |-> EvalMemo[resumes[i], job_desc, c]]
    IN  IF \E i \in DOMAIN evaluations : evaluations[i].raised THEN Raised
        ELSE [raised |-> FALSE, returned |-> TRUE, evaluations |-> SortDesc(evaluations)]

ScoreInit ==
    /\ cfg \in ConfigPool
    /\ sJob \in ScoreJobs
    /\ sBatch \in SeqsUpTo(ScoreResumes, MaxBatch)
    /\ sEval = NoResult
    /\ sBatchOut = NoResult

ScoreIdle ==
    /\ cfg = DefaultConfig /\ sJob = NoDict /\ sBatch = <<>>
    /\ sEval = NoResult /\ sBatchOut = NoResult

\* a variant that keeps the embedding it generated in the resume dict
EvaluateResume_caching(i) ==
    /\ sJob # NoDict
    /\ sEval' = EvalMemo[sBatch[i], sJob, cfg]
    /\ sBatch' = [sBatch EXCEPT ![i].embeddings =
                     OrEmbedding(sBatch[i].embeddings, sBatch[i].processed_text)]
    /\ UNCHANGED <<cfg, sJob, sBatchOut>>

\* evaluate_resume called by the holder of the job and the resumes: the call
\* reads the two dicts with get, builds a new dict and calls no store
EvaluateResume(i) ==
    /\ sJob # NoDict
    /\ sEval' = EvalMemo[sBatch[i], sJob, cfg]
    /\ UNCHANGED <<cfg, sJob, sBatch, sBatchOut>>

BatchEvaluate ==
    /\ sJob # NoDict
    /\ sBatchOut' = batch_evaluate(sBatch, sJob, cfg)
    /\ UNCHANGED <<cfg, sJob, sBatch, sEval>>

(***************************************************************************)
(* EmbeddingService: the two FAISS indexes, their metadata maps and files. *)
(* An IndexIDMap over an IndexFlatIP is the sequence of the (id, vector)   *)
(* pairs added, in the order added: add_with_ids appends and never looks   *)
(* for an id already present.                                              *)
(***************************************************************************)
\* self.dim, the encoder's dimension
Dim == 2

\* _str_to_id: the leading 15 hex digits of the MD5 digest, one fixed number
\* per record id (small numbers stand for the 60-bit values)
_str_to_id(record_id) ==
    CASE record_id = "r1" -> 101
      [] record_id = "r2" -> 102
      [] record_id = "j1" -> 201
      [] OTHER -> 999

\* str(id_int), the key of the metadata map
StrOf(id_int) == <<"str", id_int>>

EmptyMeta == <<>>
EmptyIndex == <<>>
Missing == [exists |-> FALSE]
File(content) == [exists |-> TRUE, content |-> content]

\* index.add_with_ids(vector, id)
AddWithIds(index, id_int, embedding) ==
    Append(index, [id |-> id_int, vec |-> embedding])

\* meta[key] = value
DictSet(meta, key, value) ==
    [k \in DOMAIN meta \cup {key} |-> IF k = key THEN value ELSE meta[k]]

\* metadata or {}
OrEmptyDict(metadata) == IF metadata = "None" THEN "{}" ELSE metadata

NoOp == [op |-> "none"]

StoreInit ==
    /\ resume_index = EmptyIndex
    /\ job_index = EmptyIndex
    /\ resume_meta = EmptyMeta
    /\ job_meta = EmptyMeta
    /\ disk = [resume_index |-> Missing, job_index |-> Missing,
               resume_meta |-> Missing, job_meta |-> Missing]
    /\ lastOp = NoOp
    /\ nStores = 0

\* a file that exists and cannot be read back: cut short or overwritten in part
Torn == [exists |-> TRUE, torn |-> TRUE]
Readable(file) == file.exists /\ "content" \in DOMAIN file

\* what the environment does to one store call: add_with_ids succeeds ("ok"),
\* fails once and then succeeds ("retry") or fails both times ("fail"); the
\* write of each file succeeds or fails
NoFault == [add |-> "ok", meta_write |-> "ok", index_write |-> "ok"]
IOOutcomes ==
    [add : {"ok", "retry", "fail"}, meta_write : {"ok", "fail"},
     index_write : {"ok", "fail"}]

\* what a write that failed leaves behind: open(path, 'w') may have failed
\* (the file is as before) or the write stopped after the file was emptied
AfterFailedWrite(file) == {file, Torn}

\* a variant of the rebuild that empties the index
_rebuild_index_from_meta_clear(index, meta) == EmptyIndex

\* EmbeddingService._rebuild_index_from_meta: pass
_rebuild_index_from_meta(index, meta) == index

\* the live index after lines 87-93: the first add_with_ids, and when it
\* raised the rebuild and the second add_with_ids
IndexAfterAdd(index, meta, id_int, embedding, add) ==
    IF add = "ok" THEN AddWithIds(index, id_int, embedding)
    ELSE IF add = "retry"
         THEN AddWithIds(_rebuild_index_from_meta(index, meta), id_int, embedding)
    ELSE _rebuild_index_from_meta(index, meta)

\* EmbeddingService.store_resume_embedding under the outcome io.  A second
\* add_with_ids that raises (line 93) and a _save_meta that raises (line 96)
\* are in no try block: the call raises there and the lines after do not run.
StoreResumeEmbedding(resume_id, text, metadata, io) ==
    LET embedding == generate_embeddings(text)
        id_int == _str_to_id(resume_id)
        meta_set == DictSet(resume_meta, StrOf(id_int),
                            [resume_id |-> resume_id,
                             metadata |-> OrEmptyDict(metadata)])
        raised == io.add = "fail" \/ io.meta_write = "fail"
    IN  /\ nStores < MaxStores
        /\ resume_index' = IndexAfterAdd(resume_index, resume_meta, id_int,
                                         embedding, io.add)
        /\ resume_meta' = IF io.add = "fail" THEN resume_meta ELSE meta_set
        /\ \E meta_file \in (IF io.add = "fail" THEN {disk.resume_meta}
                             ELSE IF io.meta_write = "fail"
                                  THEN AfterFailedWrite(disk.resume_meta)
                             ELSE {File(meta_set)}),
              index_file \in (IF raised THEN {disk.resume_index}
                              ELSE IF io.index_write = "fail"
                                   THEN AfterFailedWrite(disk.resume_index)
                              ELSE {File(resume_index')}) :
                disk' = [disk EXCEPT !.resume_meta = meta_file,
                                     !.resume_index = index_file]
        /\ lastOp' = [op |-> "store", ns |-> "resume", record_id |-> resume_id,
                      text |-> text, io |-> io, raised |-> raised,
                      returned |-> IF raised THEN NoEmbedding ELSE embedding,
                      before |-> [resume_index |-> resume_index,
                                  resume_meta |-> resume_meta, disk |-> disk]]
        /\ nStores' = nStores + 1
        /\ UNCHANGED <<job_index, job_meta>>

\* EmbeddingService.store_resume_embedding when nothing fails
store_resume_embedding(resume_id, text, metadata) ==
    StoreResumeEmbedding(resume_id, text, metadata, NoFault)

\* a variant that keeps one index and one map for both namespaces
store_job_embedding_shared(job_id, text, metadata) ==
    LET embedding == generate_embeddings(text)
        id_int == _str_to_id(job_id)
    IN  /\ nStores < MaxStores
        /\ job_index' = AddWithIds(job_index, id_int, embedding)
        /\ job_meta' = DictSet(job_meta, StrOf(id_int),
                               [job_id |-> job_id,
                                metadata |-> OrEmptyDict(metadata)])
        /\ resume_index' = AddWithIds(resume_index, id_int, embedding)
        /\ resume_meta' = DictSet(resume_meta, StrOf(id_int),
                                  [resume_id |-> job_id,
                                   metadata |-> OrEmptyDict(metadata)])
        /\ disk' = [disk EXCEPT !.job_meta = File(job_meta'),
                                !.job_index = File(job_index')]
        /\ lastOp' = [op |-> "store", ns |-> "job", record_id |-> job_id,
                      text |-> text, returned |-> embedding]
        /\ nStores' = nStores + 1

\* EmbeddingService.store_job_embedding
store_job_embedding(job_id, text, metadata) ==
    LET embedding == generate_embeddings(text)
        id_int == _str_to_id(job_id)
    IN  /\ nStores < MaxStores
        /\ job_index' = AddWithIds(job_index, id_int, embedding)
        /\ job_meta' = DictSet(job_meta, StrOf(id_int),
                               [job_id |-> job_id,
                                metadata |-> OrEmptyDict(metadata)])
        /\ disk' = [disk EXCEPT !.job_meta = File(job_meta'),
                                !.job_index = File(job_index')]
        /\ lastOp' = [op |-> "store", ns |-> "job", record_id |-> job_id,
                      text |-> text, returned |-> embedding]
        /\ nStores' = nStores + 1
        /\ UNCHANGED <<resume_index, resume_meta>>

\* the id FAISS reports for an empty result slot
NoMatchId == -1
\* top_k: int = 10
DefaultTopK == 10

\* the arguments callers pass as job_embedding: a list of floats of the right
\* or of another length, a string, or a list that does not hold numbers
QList(v) == [kind |-> "list", vec |-> v, text |-> <<>>]
QStr(text) == [kind |-> "str", vec |-> <<>>, text |-> text]
QNonNumeric == [kind |-> "nonnumeric", vec |-> <<>>, text |-> <<>>]

\* the rankings IndexFlatIP.search may report: every stored vector, by inner
\* product from the largest down; FAISS fixes no order among equal products
RECURSIVE RankFrom(_, _, _)
RankFrom(index, qvec, left) ==
    IF left = {} THEN { <<>> }
    ELSE LET best == { i \in left : \A j \in left :
                          Dot(qvec, index[i].vec) >= Dot(qvec, index[j].vec) }
         IN  UNION { { <<i>> \o rest : rest \in RankFrom(index, qvec, left \ {i}) } :
                     i \in best }

SearchOrders(index, qvec) == RankFrom(index, qvec, DOMAIN index)

\* index.search(q, top_k): top_k slots, (distance, id), the slots past the
\* last stored vector holding id -1
FaissSearch(index, qvec, top_k, order) ==
    [i \in 1..top_k |->
        IF i <= Len(index)
        THEN [distance |-> Rat(Dot(qvec, index[order[i]].vec), VecUnit * VecUnit),
              id |-> index[order[i]].id]
        ELSE [distance |-> RInt(0), id |-> NoMatchId]]

\* a variant of the guard that never returns early
MetaIsEmpty_never(meta) == FALSE

\* len(self.resume_meta) == 0, line 120
MetaIsEmpty(meta) == Cardinality(DOMAIN meta) = 0

\* a variant of the result that reports the inner product unscaled
ResultOf_unscaled(meta, slot) ==
    LET key == StrOf(slot.id)
    IN  [resume_id |-> IF key \in DOMAIN meta THEN meta[key].resume_id ELSE "None",
         similarity_score |-> slot.distance,
         metadata |-> IF key \in DOMAIN meta THEN meta[key].metadata ELSE "{}"]

\* one result of the loop, lines 135-140
ResultOf(meta, slot) ==
    LET key == StrOf(slot.id)
    IN  [resume_id |-> IF key \in DOMAIN meta THEN meta[key].resume_id ELSE "None",
         similarity_score |-> RMul(slot.distance, RInt(100)),
         metadata |-> IF key \in DOMAIN meta THEN meta[key].metadata ELSE "{}"]

\* EmbeddingService.find_similar_resumes; order is the ranking FAISS reports
find_similar_resumes(meta, index, job_embedding, top_k, order) ==
    IF MetaIsEmpty(meta) THEN [raised |-> FALSE, results |-> <<>>]
    ELSE IF job_embedding.kind = "nonnumeric"
         THEN [raised |-> TRUE, results |-> <<>>]       \* np.array: ValueError
    ELSE
    LET q == IF job_embedding.kind = "str"
             THEN generate_embeddings(job_embedding.text)
             ELSE job_embedding.vec
    IN  IF Len(q) # Dim
        THEN [raised |-> FALSE, results |-> <<>>]       \* search raised, caught
        ELSE LET slots == FaissSearch(index, q, top_k, order)
                 kept == SelectSeq(slots, LAMBDA slot : slot.id # NoMatchId)
             IN  [raised |-> FALSE,
                  results |-> [i \in DOMAIN kept |-> ResultOf(meta, kept[i])]]

\* the query vector, for ranking (a query that never reaches the search
\* ranks against the zero vector)
QueryVec(job_embedding) ==
    IF job_embedding.kind = "str" THEN generate_embeddings(job_embedding.text)
    ELSE IF job_embedding.kind = "list" /\ Len(job_embedding.vec) = Dim
         THEN job_embedding.vec
    ELSE ZeroVec

FindSimilarResumes(job_embedding, top_k) ==
    \E out \in { find_similar_resumes(resume_meta, resume_index, job_embedding,
                                       top_k, order) :
                    order \in SearchOrders(resume_index, QueryVec(job_embedding)) } :
            /\ lastOp' = [op |-> "query", q |-> job_embedding, k |-> top_k,
                          raised |-> out.raised, results |-> out.results,
                          after |-> IF lastOp.op = "store" THEN lastOp ELSE NoOp,
                          size |-> Cardinality(DOMAIN resume_meta)]
            /\ UNCHANGED <<resume_index, resume_meta, job_index, job_meta, disk, nStores>>

\* the store calls drawn: (record id, text, metadata)
ResumeStores ==
    { <<"r1", TA, "None">>, <<"r1", TB, "{file_name}">>,
      <<"r2", TA, "{file_name}">>, <<"r2", TEmpty, "None">> }
JobStores == { <<"j1", TA, "None">>, <<"j1", TB, "{job_title}">> }
QueryPool ==
    { QList(<<5, 0>>), QList(ZeroVec), QList(<<5>>), QStr(TB), QNonNumeric }
TopKs == {1, DefaultTopK}

\* EmbeddingService._load_or_create_index: the index read from the file, a
\* new empty index when there is no file or reading it raises
_load_or_create_index(file, read_fails) ==
    IF Readable(file) /\ ~read_fails THEN file.content ELSE EmptyIndex

\* EmbeddingService._load_meta: {} when there is no file or reading it raises
_load_meta(file, read_fails) ==
    IF Readable(file) /\ ~read_fails THEN file.content ELSE EmptyMeta

\* EmbeddingService.__init__ over the directory as it is: the process is
\* started again; failing names the files whose read fails although the
\* file is whole
Restart(failing) ==
    /\ resume_index' = _load_or_create_index(disk.resume_index, "resume_index" \in failing)
    /\ job_index' = _load_or_create_index(disk.job_index, "job_index" \in failing)
    /\ resume_meta' = _load_meta(disk.resume_meta, "resume_meta" \in failing)
    /\ job_meta' = _load_meta(disk.job_meta, "job_meta" \in failing)
    /\ lastOp' = [op |-> "init", failing |-> failing, raised |-> FALSE]
    /\ UNCHANGED <<disk, nStores>>

\* the store calls, queries and read failures drawn when I/O can fail
FaultStores == { <<"r1", TA, "None">>, <<"r2", TB, "{file_name}">> }
FaultQueries == { QList(<<5, 0>>), QNonNumeric }
FaultReads == SUBSET {"resume_index", "resume_meta"}

\* no EmbeddingService call is made: the store stays as constructed
StoreIdle == StoreInit

(***************************************************************************)
(* The evaluation endpoints of app.py.  mongodb is the LocalStorage of     *)
(* line 208: three lists of documents; scoring_engine and                  *)
(* embedding_service are the services of lines 204-207.                    *)
(***************************************************************************)
BatchTopK == 50

\* raise HTTPException(status_code, detail), inside the try block
HTTPException(status_code, detail) ==
    [raised |-> TRUE, status_code |-> status_code, detail |-> detail,
     evaluations |-> <<>>, found |-> 0]

\* an exception of a service called inside the try block
ServiceError == HTTPException(0, "error of the scoring engine")

\* the try block reached its return with these evaluations
Returns(evaluations) ==
    [raised |-> FALSE, status_code |-> 200, detail |-> "success",
     evaluations |-> evaluations, found |-> Len(evaluations)]

\* LocalStorage.get_resume_by_id: the first document with the id, or None
get_resume_by_id(data, resume_id) ==
    IF \E i \in DOMAIN data : data[i].id = resume_id
    THEN data[CHOOSE i \in DOMAIN data :
                  /\ data[i].id = resume_id
                  /\ \A j \in 1..(i - 1) : data[j].id # resume_id]
    ELSE NoDict

\* LocalStorage.get_job_by_id
get_job_by_id(data, job_id) == get_resume_by_id(data, job_id)

\* LocalStorage.insert_evaluation: the document is appended under a new id
\* (uuid4, here its position in the list)
insert_evaluation(data, eval_doc) ==
    Append(data, [eval_id |-> Len(data) + 1, doc |-> eval_doc])

\* for evaluation in evaluations: mongodb.insert_evaluation(evaluation)
RECURSIVE InsertAll(_, _)
InsertAll(data, evaluations) ==
    IF Len(evaluations) = 0 THEN data
    ELSE InsertAll(insert_evaluation(data, Head(evaluations)), Tail(evaluations))

\* the try block of evaluate_single_resume, lines 466-481
EvaluateSingleBody(db, resume_id, job_id, c) ==
    LET resume == get_resume_by_id(db.resumes, resume_id)
        job_desc == get_job_by_id(db.jobs, job_id)
    IN  IF resume = NoDict THEN HTTPException(404, "Resume not found")
        ELSE IF job_desc = NoDict THEN HTTPException(404, "Job description not found")
        ELSE IF EvalMemo[resume, job_desc, c].raised THEN ServiceError
        ELSE Returns(<<EvalMemo[resume, job_desc, c]>>)

\* the resumes evaluate_batch_resumes evaluates, lines 499-505: those of
\* resume_ids that exist, or those the store reports as similar to the job
BatchResumes(db, ids) ==
    SelectSeq([i \in DOMAIN ids |-> get_resume_by_id(db.resumes, ids[i])],
              LAMBDA r : r # NoDict)

\* the try block of evaluate_batch_resumes from line 499 on, for a job found
EvaluateBatchFound(db, job_desc, ids, c) ==
    IF Len(BatchResumes(db, ids)) = 0
    THEN HTTPException(404, "No resumes found for evaluation")
    ELSE IF batch_evaluate(BatchResumes(db, ids), job_desc, c).raised THEN ServiceError
    ELSE Returns(batch_evaluate(BatchResumes(db, ids), job_desc, c).evaluations)

\* the try block of evaluate_batch_resumes, lines 494-525; similar is what
\* find_similar_resumes answers for the job's embeddings
EvaluateBatchBody(db, job_id, resume_ids, similar, c) ==
    IF get_job_by_id(db.jobs, job_id) = NoDict
    THEN HTTPException(404, "Job description not found")
    ELSE EvaluateBatchFound(db, get_job_by_id(db.jobs, job_id),
                            IF Len(resume_ids) > 0 THEN resume_ids
                            ELSE [i \in DOMAIN similar |-> similar[i].resume_id], c)

\* a variant of the handlers' except clause that lets an HTTPException
\* through, as upload_job_description does
StatusOf_preserving(out) ==
    IF out.raised /\ out.status_code = 0 THEN 500 ELSE out.status_code

\* except Exception as e: raise HTTPException(status_code=500, ...), lines
\* 484-486 and 527-529: HTTPException is an Exception, so the 404 raised in
\* the try block is caught here as well
StatusOf(out) == IF out.raised THEN 500 ELSE out.status_code

NoResponse == [endpoint |-> "none"]
EmptyDb == [resumes |-> <<>>, jobs |-> <<>>, evaluations |-> <<>>]

\* the handler's effect: the evaluations of a try block that returned are in
\* the collection, and the client gets the status
Respond(endpoint, resume_ids, job_id, out) ==
    /\ Len(mongodb.evaluations) < MaxEvals
    /\ mongodb' = [mongodb EXCEPT !.evaluations =
                      IF out.raised THEN @ ELSE InsertAll(@, out.evaluations)]
    /\ response' = [endpoint |-> endpoint, resume_ids |-> resume_ids,
                    job_id |-> job_id, status_code |-> StatusOf(out),
                    detail |-> out.detail, found |-> out.found,
                    evaluations |-> out.evaluations,
                    before |-> mongodb.evaluations]

\* POST /api/evaluate-resume
evaluate_single_resume(resume_id, job_id) ==
    Respond("evaluate-resume", <<resume_id>>, job_id,
            EvaluateSingleBody(mongodb, resume_id, job_id, cfg))

\* the embeddings of a job document as find_similar_resumes receives them
JobEmbeddings(db, job_id) ==
    IF get_job_by_id(db.jobs, job_id) = NoDict THEN QList(NoEmbedding)
    ELSE QList(get_job_by_id(db.jobs, job_id).embeddings)

\* POST /api/evaluate-batch; resume_ids None is the empty list
evaluate_batch_resumes(job_id, resume_ids) ==
    \E order \in SearchOrders(resume_index, QueryVec(JobEmbeddings(mongodb, job_id))) :
        Respond("evaluate-batch", resume_ids, job_id,
                EvaluateBatchBody(mongodb, job_id, resume_ids,
                    find_similar_resumes(resume_meta, resume_index,
                        JobEmbeddings(mongodb, job_id), BatchTopK, order).results,
                    cfg))

\* the documents uploaded before: three resumes and three jobs, one of the
\* jobs with max_experience None
ApiResumes ==
    [i \in 1..3 |-> CHOOSE r \in ResumePool : r.id = <<"r1", "r2", "r3">>[i]]
ApiJobs ==
    [i \in 1..3 |-> CHOOSE j \in JobPool : j.id = <<"j1", "j3", "j4">>[i]]

\* the store after the uploads of r1 and r2 (app.py line 304) and a restart
UploadedIndex ==
    <<[id |-> _str_to_id("r1"), vec |-> generate_embeddings(TA)],
      [id |-> _str_to_id("r2"), vec |-> generate_embeddings(TB)]>>
UploadedMeta ==
    DictSet(DictSet(EmptyMeta, StrOf(_str_to_id("r1")),
                    [resume_id |-> "r1", metadata |-> "{file_name}"]),
            StrOf(_str_to_id("r2")),
            [resume_id |-> "r2", metadata |-> "{file_name}"])

\* the store the endpoints find: empty, or holding the uploads
ApiStoreInit ==
    \/ StoreInit
    \/ /\ resume_index = UploadedIndex
       /\ resume_meta = UploadedMeta
       /\ job_index = EmptyIndex
       /\ job_meta = EmptyMeta
       /\ disk = [resume_index |-> File(UploadedIndex), job_index |-> Missing,
                  resume_meta |-> File(UploadedMeta), job_meta |-> Missing]
       /\ lastOp = NoOp
       /\ nStores = 0

ApiInit ==
    /\ mongodb = [resumes |-> ApiResumes, jobs |-> ApiJobs, evaluations |-> <<>>]
    /\ response = NoResponse

\* no request is made
ApiIdle == mongodb = EmptyDb /\ response = NoResponse

\* the ids the requests name; r0 and j0 are the ids of no document
RequestResumeIds == {"r1", "r2", "r3", "r0"}
RequestJobIds == {"j1", "j3", "j4", "j0"}
RequestBatches == {<<>>, <<"r1">>, <<"r0">>, <<"r2", "r1">>, <<"r0", "r3">>}

(***************************************************************************)
(* _str_to_id at the level of the digits: hashlib.md5 of the UTF-8 bytes   *)
(* (no key, no seed, no state of the service), its hexdigest of 32 hex     *)
(* digits, the leading 15 of them, int(..., 16).  The 60-bit values do not *)
(* fit the integers of the checker and are kept as hex numerals.           *)
(***************************************************************************)
HexDigits == <<"0", "1", "2", "3", "4", "5", "6", "7", "8", "9", "a", "b", "c", "d", "e", "f">>
HexVal(c) == (CHOOSE i \in DOMAIN HexDigits : HexDigits[i] = c) - 1

\* hashlib.md5(s.encode('utf-8')).hexdigest() of the record ids drawn
md5_hexdigest(s) ==
    CASE s = "r1" -> <<"7","c","9","2","c","f","1","e","e","e","8","d","9","9","c","c",
                       "8","5","f","8","3","5","5","a","3","d","6","e","4","b","8","6">>
      [] s = "r2" -> <<"d","2","7","9","1","8","6","4","2","8","a","7","5","0","1","6",
                       "b","1","7","e","4","d","f","5","e","a","4","3","d","0","8","0">>
      [] s = "j1" -> <<"6","c","a","e","b","a","4","4","4","7","9","7","a","2","8","1",
                       "a","0","1","1","0","e","0","c","8","0","a","d","5","8","1","4">>
      [] s = "" -> <<"d","4","1","d","8","c","d","9","8","f","0","0","b","2","0","4",
                     "e","9","8","0","0","9","9","8","e","c","f","8","4","2","7","e">>

\* a variant that keeps 16 digits
IdPrefix_sixteen(m) == SubSeq(m, 1, 16)

\* m[:15]
IdPrefix(m) == SubSeq(m, 1, 15)

\* int(numeral, 16) as a numeral without leading zeros
RECURSIVE HexInt(_)
HexInt(numeral) ==
    IF Len(numeral) > 0 /\ numeral[1] = "0" THEN HexInt(Tail(numeral)) ELSE numeral

\* a < b for numerals without leading zeros
RECURSIVE DigitsLess(_, _)
DigitsLess(a, b) ==
    IF Len(a) = 0 THEN FALSE
    ELSE IF HexVal(a[1]) # HexVal(b[1]) THEN HexVal(a[1]) < HexVal(b[1])
    ELSE DigitsLess(Tail(a), Tail(b))

HexLess(a, b) ==
    IF Len(a) # Len(b) THEN Len(a) < Len(b) ELSE DigitsLess(a, b)

\* _str_to_id, the number as a hex numeral
StrToIdHex(s) == HexInt(IdPrefix(md5_hexdigest(s)))

\* 2^63
TwoTo63 == <<"8">> \o [i \in 1..15 |-> "0"]

\* the services of the process and the record ids they hash
Services == {"embedding_service", "scoring_engine.embedding_service"}
RecordIds == {"r1", "r2", "j1", ""}

IdIdle == idLog = <<>>

\* one service applies _str_to_id to a record id
StrToId(service, s) ==
    /\ Len(idLog) < MaxIds
    /\ idLog' = Append(idLog, [service |-> service, s |-> s, id |-> StrToIdHex(s)])

(***************************************************************************)
(* Two writers storing resumes into one FAISS_PERSIST_DIR, with no lock    *)
(* anywhere in EmbeddingService: two threads calling the same service, or  *)
(* two services (app.py line 206, scoring.py line 14, job_service.py line  *)
(* 36 each construct one; every server process has its own), both         *)
(* constructed over the directory before either stores.  A store is four   *)
(* steps: the index and the map in memory (lines 85-95), open(path, 'w')   *)
(* and json.dump into the file object (lines 61-62), the flush when the    *)
(* with block closes the file, and faiss.write_index (line 66).            *)
(***************************************************************************)
Writers == {1, 2}

\* the record each writer stores: (record id, text, metadata)
RaceRecord(w) == IF w = 1 THEN <<"r1", TA, "None">> ELSE <<"r2", TB, "{file_name}">>

\* the service writer w calls
Instance(w) == IF shared THEN 1 ELSE w

NotStoring == [pc |-> "idle", buf |-> EmptyMeta, stored |-> 0]

RaceIdle ==
    /\ shared = FALSE
    /\ memory = [i \in Writers |-> [resume_index |-> EmptyIndex, resume_meta |-> EmptyMeta]]
    /\ writer = [w \in Writers |-> NotStoring]

RaceInit ==
    /\ shared \in BOOLEAN
    /\ memory = [i \in Writers |-> [resume_index |-> EmptyIndex, resume_meta |-> EmptyMeta]]
    /\ writer = [w \in Writers |-> NotStoring]

\* a variant of the dump that first takes over the entries the file holds
Dumped_merged(file, meta) ==
    LET old == _load_meta(file, FALSE)
    IN  [k \in DOMAIN old \cup DOMAIN meta |-> IF k \in DOMAIN meta THEN meta[k] ELSE old[k]]

\* json.dump(meta, f): the map of the service as it is, whatever the file holds
Dumped(file, meta) == meta

\* the file after the buffered text is written from offset 0 at close: the
\* text alone, unless another writer put a longer text there since the file
\* was opened, whose tail then stays behind the new text; texts of different
\* maps with equally many entries may or may not be equally long
FlushOutcomes(file, buf) ==
    IF ~Readable(file) \/ file.content = buf THEN {File(buf)}
    ELSE IF Cardinality(DOMAIN file.content) > Cardinality(DOMAIN buf) THEN {Torn}
    ELSE IF Cardinality(DOMAIN file.content) = Cardinality(DOMAIN buf) THEN {File(buf), Torn}
    ELSE {File(buf)}

\* lines 85-95: the vector goes into the index, the entry into the map
RaceAdd(w) ==
    LET c == RaceRecord(w)
        id_int == _str_to_id(c[1])
        m == memory[Instance(w)]
    IN  /\ writer[w].pc = "idle"
        /\ writer[w].stored < MaxWrites
        /\ memory' = [memory EXCEPT ![Instance(w)] =
                        [resume_index |-> AddWithIds(m.resume_index, id_int,
                                                     generate_embeddings(c[2])),
                         resume_meta |-> DictSet(m.resume_meta, StrOf(id_int),
                                                 [resume_id |-> c[1],
                                                  metadata |-> OrEmptyDict(c[3])])]]
        /\ writer' = [writer EXCEPT ![w].pc = "added"]
        /\ UNCHANGED <<shared, disk>>

\* _save_meta, lines 61-62: open(path, 'w') empties the file, json.dump
\* fills the buffer of the file object
RaceOpenMeta(w) ==
    /\ writer[w].pc = "added"
    /\ writer' = [writer EXCEPT ![w].pc = "opened",
                                ![w].buf = Dumped(disk.resume_meta,
                                                  memory[Instance(w)].resume_meta)]
    /\ disk' = [disk EXCEPT !.resume_meta = Torn]
    /\ UNCHANGED <<shared, memory>>

\* _save_meta: leaving the with block closes the file and writes the buffer
RaceCloseMeta(w) ==
    /\ writer[w].pc = "opened"
    /\ \E file \in FlushOutcomes(disk.resume_meta, writer[w].buf) :
          disk' = [disk EXCEPT !.resume_meta = file]
    /\ writer' = [writer EXCEPT ![w].pc = "flushed", ![w].buf = EmptyMeta]
    /\ UNCHANGED <<shared, memory>>

\* _save_index, line 66, and the return
RaceSaveIndex(w) ==
    /\ writer[w].pc = "flushed"
    /\ disk' = [disk EXCEPT !.resume_index = File(memory[Instance(w)].resume_index)]
    /\ writer' = [writer EXCEPT ![w].pc = "idle", ![w].stored = @ + 1]
    /\ UNCHANGED <<shared, memory>>

(***************************************************************************)
(* One MatchingService used by several threads.  calculate_hard_match      *)
(* reads its arguments only; calculate_soft_match goes through the         *)
(* TfidfVectorizer made once in __init__ (matching.py line 14), in three   *)
(* steps that another thread's call can come between: fit_transform counts *)
(* the terms into a matrix X local to the call, self._tfidf.fit(X) stores  *)
(* the document frequencies in the vectorizer, self._tfidf.transform(X)    *)
(* reads them back.  The scikit-learn release is not pinned: later         *)
(* releases replace self._tfidf by an unfitted transformer when            *)
(* fit_transform is entered, earlier ones keep the one made in __init__.   *)
(***************************************************************************)
Threads == {1, 2}

\* a job text whose only word is too short to be a keyword
TShort == <<W(Word.sql)>>

\* the calculate_soft_match calls drawn: (resume_text, job_text,
\* resume_embedding, job_embedding); an embedding that is None is NoEmbedding
SoftCalls ==
    { <<TA, TA, generate_embeddings(TA), generate_embeddings(TA)>>,
      <<TA, TD, NoEmbedding, generate_embeddings(TD)>>,
      <<TB, TShort, generate_embeddings(TB), NoEmbedding>>,
      <<TEmpty, TEmpty, generate_embeddings(TEmpty), generate_embeddings(TEmpty)>> }

HardCalls ==
    {<<r, j>> : r \in {x \in ResumePool : x.id = "r1"},
                j \in {x \in JobPool : x.id \in {"j1", "j3"}}}

NoCall == [pc |-> "idle", resume_text |-> <<>>, job_text |-> <<>>,
           resume_embedding |-> NoEmbedding, job_embedding |-> NoEmbedding,
           X |-> <<>>, overlapped |-> FALSE]

SoftInit ==
    /\ vectorizer = Unfitted
    /\ calls = [t \in Threads |-> NoCall]
    /\ log = <<>>

\* calls entered so far
Started == Len(log) + Cardinality({t \in Threads : calls[t].pc # "idle"})

\* another thread is inside a call
Running(t) == \E u \in Threads \ {t} : calls[u].pc # "idle"

\* thread t enters a call: the calls under way are no longer alone
Overlap(t) ==
    [u \in Threads |->
        IF u # t /\ calls[u].pc # "idle" THEN [calls[u] EXCEPT !.overlapped = TRUE]
        ELSE calls[u]]

Returned(kind, args, out, overlapped) ==
    [kind |-> kind, args |-> args, out |-> out, overlapped |-> overlapped]

\* a fit that adds the document frequencies to those of the fit before
VectorizerAfterFit_accumulate(state, X) ==
    IF state.fitted /\ Len(state.df) = Len(X[1])
    THEN Fitted([i \in DOMAIN X[1] |-> state.df[i] + TfidfFit(X).df[i]])
    ELSE TfidfFit(X)

\* self._tfidf.fit(X): the fitted state replaces the one before
VectorizerAfterFit(state, X) == TfidfFit(X)

\* calculate_hard_match called by thread t
HardCall(t, resume, job_desc) ==
    /\ calls[t].pc = "idle"
    /\ Started < MaxCalls
    /\ log' = Append(log, Returned("hard", <<resume, job_desc>>,
                                   calculate_hard_match(resume, job_desc), Running(t)))
    /\ calls' = Overlap(t)
    /\ UNCHANGED vectorizer

\* thread t enters calculate_soft_match: fit_transform is called and counts
\* the terms (lines 149-150).  An empty vocabulary raises ValueError, caught
\* at line 153, and the call goes on to return with tfidf_similarity 0.
SoftEnter(t, resume_text, job_text, resume_embedding, job_embedding) ==
    /\ calls[t].pc = "idle"
    /\ Started < MaxCalls
    /\ vectorizer' \in {vectorizer, Unfitted}
    /\ IF Vocabulary(resume_text, job_text) = {}
       THEN /\ log' = Append(log, Returned("soft",
                                 <<resume_text, job_text, resume_embedding, job_embedding>>,
                                 SoftScores(RInt(0), resume_text, job_text,
                                            resume_embedding, job_embedding),
                                 Running(t)))
            /\ calls' = Overlap(t)
       ELSE /\ calls' = [Overlap(t) EXCEPT ![t] =
                            [pc |-> "counted", resume_text |-> resume_text,
                             job_text |-> job_text,
                             resume_embedding |-> resume_embedding,
                             job_embedding |-> job_embedding,
                             X |-> CountMatrix(resume_text, job_text),
                             overlapped |-> Running(t)]]
            /\ UNCHANGED log

\* self._tfidf.fit(X)
SoftFit(t) ==
    /\ calls[t].pc = "counted"
    /\ vectorizer' = VectorizerAfterFit(vectorizer, calls[t].X)
    /\ calls' = [calls EXCEPT ![t].pc = "fitted"]
    /\ UNCHANGED log

\* self._tfidf.transform(X), the cosine, and the rest of the call; a
\* transformer that is not fitted or was fitted to another number of terms
\* raises, which line 153 turns into tfidf_similarity 0
SoftTransform(t) ==
    /\ calls[t].pc = "fitted"
    /\ log' = Append(log, Returned("soft",
                             <<calls[t].resume_text, calls[t].job_text,
                               calls[t].resume_embedding, calls[t].job_embedding>>,
                             SoftScores(TfidfCosine(calls[t].X, vectorizer),
                                        calls[t].resume_text, calls[t].job_text,
                                        calls[t].resume_embedding, calls[t].job_embedding),
                             calls[t].overlapped))
    /\ calls' = [calls EXCEPT ![t] = NoCall]
    /\ UNCHANGED vectorizer

NextMatch ==
    \/ HardMatch /\ UNCHANGED <<scoreVars, storeVars, softVars, raceVars, idVars, apiVars>>
    \/ \E skill \in RequiredVocab : HardMatchAmended(skill) /\ UNCHANGED <<scoreVars, storeVars, softVars, raceVars, idVars, apiVars>>

InitMatch == MatchInit /\ ScoreIdle /\ StoreIdle /\ SoftInit /\ RaceIdle /\ IdIdle /\ ApiIdle

SpecMatch == InitMatch /\ [][NextMatch]_vars

NextScore ==
    \/ \E i \in DOMAIN sBatch : EvaluateResume(i) /\ UNCHANGED <<matchVars, storeVars, softVars, raceVars, idVars, apiVars>>
    \/ BatchEvaluate /\ UNCHANGED <<matchVars, storeVars, softVars, raceVars, idVars, apiVars>>

InitScore == MatchIdle /\ ScoreInit /\ StoreIdle /\ SoftInit /\ RaceIdle /\ IdIdle /\ ApiIdle

SpecScore == InitScore /\ [][NextScore]_vars

NextStore ==
    \/ \E c \in ResumeStores :
          store_resume_embedding(c[1], c[2], c[3]) /\ UNCHANGED <<matchVars, scoreVars, softVars, raceVars, idVars, apiVars>>
    \/ \E c \in JobStores :
          store_job_embedding(c[1], c[2], c[3]) /\ UNCHANGED <<matchVars, scoreVars, softVars, raceVars, idVars, apiVars>>
    \/ \E q \in QueryPool, k \in TopKs :
          FindSimilarResumes(q, k) /\ UNCHANGED <<matchVars, scoreVars, softVars, raceVars, idVars, apiVars>>

InitStore == MatchIdle /\ ScoreIdle /\ StoreInit /\ SoftInit /\ RaceIdle /\ IdIdle /\ ApiIdle

SpecStore == InitStore /\ [][NextStore]_vars

NextFault ==
    \/ \E c \in FaultStores, io \in IOOutcomes :
          StoreResumeEmbedding(c[1], c[2], c[3], io)
            /\ UNCHANGED <<matchVars, scoreVars, softVars, raceVars, idVars, apiVars>>
    \/ \E failing \in FaultReads :
          Restart(failing) /\ UNCHANGED <<matchVars, scoreVars, softVars, raceVars, idVars, apiVars>>
    \/ \E q \in FaultQueries :
          FindSimilarResumes(q, 1) /\ UNCHANGED <<matchVars, scoreVars, softVars, raceVars, idVars, apiVars>>

InitFault == MatchIdle /\ ScoreIdle /\ StoreInit /\ SoftInit /\ RaceIdle /\ IdIdle /\ ApiIdle

SpecFault == InitFault /\ [][NextFault]_vars

othersInRace ==
    <<matchVars, scoreVars, softVars, resume_index, resume_meta, job_index, job_meta,
      lastOp, nStores, idVars, apiVars>>

NextRace ==
    \/ \E w \in Writers : RaceAdd(w) /\ UNCHANGED othersInRace
    \/ \E w \in Writers : RaceOpenMeta(w) /\ UNCHANGED othersInRace
    \/ \E w \in Writers : RaceCloseMeta(w) /\ UNCHANGED othersInRace
    \/ \E w \in Writers : RaceSaveIndex(w) /\ UNCHANGED othersInRace

InitRace == MatchIdle /\ ScoreIdle /\ StoreInit /\ SoftInit /\ RaceInit /\ IdIdle /\ ApiIdle

SpecRace == InitRace /\ [][NextRace]_vars

NextId ==
    \E service \in Services, s \in RecordIds :
        StrToId(service, s)
          /\ UNCHANGED <<matchVars, scoreVars, storeVars, softVars, raceVars, apiVars>>

InitId == MatchIdle /\ ScoreIdle /\ StoreIdle /\ SoftInit /\ RaceIdle /\ IdIdle /\ ApiIdle

SpecId == InitId /\ [][NextId]_vars

NextSoft ==
    \/ \E t \in Threads, c \in HardCalls :
          HardCall(t, c[1], c[2]) /\ UNCHANGED <<matchVars, scoreVars, storeVars, raceVars, idVars, apiVars>>
    \/ \E t \in Threads, c \in SoftCalls :
          SoftEnter(t, c[1], c[2], c[3], c[4]) /\ UNCHANGED <<matchVars, scoreVars, storeVars, raceVars, idVars, apiVars>>
    \/ \E t \in Threads : SoftFit(t) /\ UNCHANGED <<matchVars, scoreVars, storeVars, raceVars, idVars, apiVars>>
    \/ \E t \in Threads : SoftTransform(t) /\ UNCHANGED <<matchVars, scoreVars, storeVars, raceVars, idVars, apiVars>>

InitSoft == MatchIdle /\ ScoreIdle /\ StoreIdle /\ SoftInit /\ RaceIdle /\ IdIdle /\ ApiIdle

SpecSoft == InitSoft /\ [][NextSoft]_vars

NextApi ==
    \/ \E resume_id \in RequestResumeIds, job_id \in RequestJobIds :
          evaluate_single_resume(resume_id, job_id)
            /\ UNCHANGED <<matchVars, scoreVars, storeVars, softVars, raceVars, idVars>>
    \/ \E job_id \in RequestJobIds, resume_ids \in RequestBatches :
          evaluate_batch_resumes(job_id, resume_ids)
            /\ UNCHANGED <<matchVars, scoreVars, storeVars, softVars, raceVars, idVars>>

InitApi == MatchIdle /\ ScoreIdle /\ ApiStoreInit /\ SoftInit /\ RaceIdle /\ IdIdle /\ ApiInit

SpecApi == InitApi /\ [][NextApi]_vars

(***************************************************************************)
(* Properties of the scoring engine, checked under SpecScore.              *)
(***************************************************************************)
\* the resume the last evaluate_resume call was given
EvaluatedResume == CHOOSE r \in ScoreResumes : r.id = sEval.resume_id

\* the hard score and the weighted sum of the last call before clamping
EvaluatedHard == calculate_hard_match(EvaluatedResume, sJob).overall_hard_match
EvaluatedUnclamped == Combine(EvaluatedHard, SoftScore(EvaluatedResume, sJob), cfg)

InRange(e) == RGe(e.relevance_score, RInt(0)) /\ RLe(e.relevance_score, RInt(100))

\* C1: every evaluation returned, by evaluate_resume or inside a batch, has
\* 0 <= relevance_score <= 100, whatever the weights and the similarity are.
C1_RelevanceInRange ==
    /\ sEval.returned => InRange(sEval)
    /\ sBatchOut.returned =>
           \A i \in DOMAIN sBatchOut.evaluations : InRange(sBatchOut.evaluations[i])

\* an evaluation whose weighted sum left the range and was brought back
C1_Witness ==
    /\ sEval.returned
    /\ \/ RGt(EvaluatedUnclamped, RInt(100)) /\ sEval.relevance_score = RInt(100)
       \/ RLt(EvaluatedUnclamped, RInt(0)) /\ sEval.relevance_score = RInt(0)

\* C2: the verdict agrees with the relevance_score stored beside it: HIGH
\* exactly when the score is at least HIGH_THRESHOLD, MEDIUM exactly when it
\* is at least MEDIUM_THRESHOLD and below HIGH_THRESHOLD, LOW otherwise.
C2_VerdictAgreesWithStoredScore ==
    sEval.returned =>
        /\ sEval.verdict = "HIGH" <=> RGe(sEval.relevance_score, cfg.HIGH_THRESHOLD)
        /\ sEval.verdict = "MEDIUM" <=>
               /\ RGe(sEval.relevance_score, cfg.MEDIUM_THRESHOLD)
               /\ RLt(sEval.relevance_score, cfg.HIGH_THRESHOLD)
        /\ sEval.verdict = "LOW" <=> RLt(sEval.relevance_score, cfg.MEDIUM_THRESHOLD)

\* C3: evaluate_resume fuses the hard score with the overall_soft_match of
\* calculate_soft_match (TF-IDF, embedding and keyword overlap), and reports
\* that value as the soft score.
C3_FusesOverallSoftMatch ==
    sEval.returned =>
        LET soft == calculate_soft_match(
                        EvaluatedResume.processed_text, sJob.processed_text,
                        OrEmbedding(EvaluatedResume.embeddings,
                                    EvaluatedResume.processed_text),
                        OrEmbedding(sJob.embeddings, sJob.processed_text)
                    ).overall_soft_match
        IN  /\ sEval.soft_match_score = Round2(soft)
            /\ sEval.relevance_score = Round2(Clamp(Combine(EvaluatedHard, soft, cfg)))

C5_IndexSizeEqualsMetaSize ==
    /\ Len(resume_index) = Cardinality(DOMAIN resume_meta)
    /\ Len(job_index) = Cardinality(DOMAIN job_meta)

\* the query asks for the one nearest neighbour of embed(text), text being
\* what the store call just before it stored in the resume namespace
RoundTripQuery ==
    /\ lastOp.op = "query"
    /\ lastOp.after.op = "store"
    /\ lastOp.after.ns = "resume"
    /\ lastOp.k = 1
    /\ lastOp.q.kind \in {"list", "str"}
    /\ lastOp.q.kind = "list" => Len(lastOp.q.vec) = Dim
    /\ QueryVec(lastOp.q) = generate_embeddings(lastOp.after.text)

\* the query returned the record just stored on top, with similarity 100
RoundTripFound ==
    /\ ~lastOp.raised
    /\ Len(lastOp.results) = 1
    /\ lastOp.results[1].resume_id = lastOp.after.record_id
    /\ lastOp.results[1].similarity_score = RInt(100)

\* C6 as stated: after a store, the nearest neighbour of embed(text) is the
\* record stored, with similarity 100, whatever text is and whatever the
\* namespace held before.
C6_RoundTrip == RoundTripQuery => RoundTripFound

\* C6: after store_resume_embedding(id, text, meta) with a text that is not
\* empty, find_similar_resumes(embed(text), 1) returns the record stored, with
\* similarity 100, provided every vector of the resume index equal to
\* embed(text) was stored under that id.
C6_RoundTripAmended ==
    ( /\ RoundTripQuery
      /\ lastOp.after.text # TEmpty
      /\ \A i \in DOMAIN resume_index :
             resume_index[i].vec = generate_embeddings(lastOp.after.text)
                 => resume_index[i].id = _str_to_id(lastOp.after.record_id) )
    => RoundTripFound

\* a round trip in an index that holds another record as well
C6_Witness ==
    /\ RoundTripQuery
    /\ lastOp.after.text # TEmpty
    /\ \E i \in DOMAIN resume_index :
           resume_index[i].id # _str_to_id(lastOp.after.record_id)
    /\ RoundTripFound

\* C7: a query of the resume namespace while it is empty returns the empty
\* list and does not raise, for every query argument and every top_k.
C7_EmptyNamespaceQuery ==
    (lastOp.op = "query" /\ resume_index = EmptyIndex /\ resume_meta = EmptyMeta)
        => ~lastOp.raised /\ lastOp.results = <<>>

\* a query with an argument that is no vector, on the empty namespace
C7_Witness ==
    /\ lastOp.op = "query"
    /\ resume_index = EmptyIndex /\ resume_meta = EmptyMeta
    /\ lastOp.q = QNonNumeric
    /\ lastOp.results = <<>>

\* C8: batch_evaluate returns one evaluation per input resume, by
\* non-increasing relevance_score, evaluations of equal score in the order
\* of their resumes in the input.
C8_BatchSortedStable ==
    sBatchOut.returned =>
        LET out == sBatchOut.evaluations
            n == Len(sBatch)
        IN  /\ Len(out) = n
            /\ \A i \in 1..(n - 1) :
                   RGe(out[i].relevance_score, out[i + 1].relevance_score)
            /\ \E p \in [1..n -> 1..n] :
                   /\ \A i, j \in 1..n : i # j => p[i] # p[j]
                   /\ \A i \in 1..n : out[i] = evaluate_resume(sBatch[p[i]], sJob, cfg)
                   /\ \A i, j \in 1..n :
                          (i < j /\ out[i].relevance_score = out[j].relevance_score)
                              => p[i] < p[j]

\* a batch of two different resumes with the same score
C8_Witness ==
    /\ sBatchOut.returned
    /\ Len(sBatchOut.evaluations) = 2
    /\ sBatchOut.evaluations[1].relevance_score = sBatchOut.evaluations[2].relevance_score
    /\ sBatchOut.evaluations[1].resume_id # sBatchOut.evaluations[2].resume_id
    /\ sBatchOut.evaluations[1].resume_id = sBatch[1].id

(***************************************************************************)
(* Properties of the hard match, checked under SpecMatch.                  *)
(***************************************************************************)
\* how many of the skills fuzzy-match a skill of the resume
MatchedCount(skills) ==
    Cardinality({ i \in DOMAIN skills :
                    \E k \in DOMAIN mResume.skills :
                        FuzzyMemo[Lower(skills[i]), Lower(mResume.skills[k]),
                                  DefaultThreshold] })

\* C9: skills_match is 70 times the matched fraction of the required skills
\* plus 30 times the matched fraction of the optional skills, an empty list
\* giving its full share; no required and no optional skill gives 100, and
\* {python, sql} required with {docker} optional against {Python, AWS} gives 35.
C9_SkillsMatchFormula ==
    mScores.returned =>
        LET nr == Len(mJob.required_skills)
            no == Len(mJob.optional_skills)
            req == IF nr = 0 THEN RInt(70)
                   ELSE Rat(70 * MatchedCount(mJob.required_skills), nr)
            opt == IF no = 0 THEN RInt(30)
                   ELSE Rat(30 * MatchedCount(mJob.optional_skills), no)
        IN  /\ mScores.skills_match = RAdd(req, opt)
            /\ (nr = 0 /\ no = 0) => mScores.skills_match = RInt(100)
            /\ ( /\ mJob.required_skills = <<Str.python, Str.sql>>
                 /\ mJob.optional_skills = <<Str.docker>>
                 /\ mResume.skills = <<Str.Python_, Str.AWS>> )
               => mScores.skills_match = RInt(35)

\* the example job and resume, scored
C9_Witness ==
    /\ mScores.returned
    /\ mJob.required_skills = <<Str.python, Str.sql>>
    /\ mJob.optional_skills = <<Str.docker>>
    /\ mResume.skills = <<Str.Python_, Str.AWS>>
    /\ mScores.skills_match = RInt(35)

\* the job was scored, then one required skill that fuzzy-matches a skill of
\* the resume was added to it and it was scored again
AddedMatchingSkill ==
    /\ mPrev.job # NoDict
    /\ mPrev.scores.returned
    /\ mScores.returned
    /\ Len(mJob.required_skills) = Len(mPrev.job.required_skills) + 1
    /\ mJob = [mPrev.job EXCEPT !.required_skills =
                   Append(@, mJob.required_skills[Len(mJob.required_skills)])]
    /\ MatchedCount(<<mJob.required_skills[Len(mJob.required_skills)]>>) = 1

\* C10: adding to the required skills of a job one skill that fuzzy-matches a
\* skill of the resume does not decrease skills_match, also when the required
\* list was empty.
C10_AddingMatchedSkillMonotone ==
    AddedMatchingSkill => RGe(mScores.skills_match, mPrev.scores.skills_match)

\* a matching skill added to a job that required none
C10_Witness ==
    /\ AddedMatchingSkill
    /\ mPrev.job.required_skills = <<>>
    /\ mScores.skills_match = mPrev.scores.skills_match

\* the years calculate_hard_match reads from the resume of the last call
ResumeYears == _extract_experience_years(mResume.raw_text)

\* C11: every call gives an experience_match of 100 when the years lie in
\* [min_experience, max_experience], max_experience being min_experience + 10
\* when the job gives none, 80 when they lie above max_experience and
\* years / min_experience * 100 when they lie below min_experience.
C11_ExperienceMatch ==
    mScores # NoResult =>
        LET min_exp == mJob.min_experience
            max_exp == IF mJob.max_experience.k = "int" THEN mJob.max_experience.v
                       ELSE min_exp + 10
        IN  /\ mScores.returned
            /\ mScores.experience_match =
                   IF ResumeYears < min_exp THEN Rat(100 * ResumeYears, min_exp)
                   ELSE IF ResumeYears <= max_exp THEN RInt(100)
                   ELSE RInt(80)

\* C12: education_match is 100 times the fraction of the education
\* requirements found in the degrees and contexts of the resume, 100 when the
\* job has no requirement, and so 0 for a resume without education entries
\* against a job with a requirement.
C12_EducationMatch ==
    mScores.returned =>
        /\ mScores.education_match =
               IF Len(mJob.education_requirements) = 0 THEN RInt(100)
               ELSE RMul(_match_education(mResume.education,
                                          mJob.education_requirements), RInt(100))
        /\ (Len(mResume.education) = 0 /\ Len(mJob.education_requirements) > 0)
               => mScores.education_match = RInt(0)

\* C13: no call of calculate_hard_match raises, also when a field that is
\* present holds None.
C13_NoExceptionEscapes == ~mScores.raised

\* C20: the soft score of every evaluation lies in [0, 100], and is 0 when
\* one of the two embeddings has zero norm.
C20_SimilarityInRange ==
    sEval.returned =>
        LET e1 == OrEmbedding(EvaluatedResume.embeddings, EvaluatedResume.processed_text)
            e2 == OrEmbedding(sJob.embeddings, sJob.processed_text)
        IN  /\ RGe(sEval.soft_match_score, RInt(0))
            /\ RLe(sEval.soft_match_score, RInt(100))
            /\ (e1 = ZeroVec \/ e2 = ZeroVec) => sEval.soft_match_score = RInt(0)


(***************************************************************************)
(* Properties of one MatchingService called from several threads, checked  *)
(* under SpecSoft.                                                         *)
(***************************************************************************)
\* what the call of a log entry returns when no other call is made
Alone(e) ==
    IF e.kind = "hard" THEN calculate_hard_match(e.args[1], e.args[2])
    ELSE calculate_soft_match(e.args[1], e.args[2], e.args[3], e.args[4])

SameCall(a, b) == a.kind = b.kind /\ a.args = b.args

\* C14: two calls of calculate_hard_match, or two of calculate_soft_match, made
\* on the same MatchingService with identical inputs and not overlapping any
\* other call return identical outputs, whatever calls were made in between.
C14_SequentialCallsDeterministic ==
    \A i, j \in DOMAIN log :
        (~log[i].overlapped /\ ~log[j].overlapped /\ SameCall(log[i], log[j]))
            => log[i].out = log[j].out

\* the same soft match made twice with a soft match of other texts in between
C14_Witness ==
    /\ Len(log) = 3
    /\ \A i \in DOMAIN log : log[i].kind = "soft" /\ ~log[i].overlapped
    /\ log[1].args = log[3].args
    /\ log[2].args # log[1].args
    /\ log[2].out.tfidf_similarity # RInt(0)
    /\ log[1].out.tfidf_similarity = RInt(100)
    /\ log[3].out = log[1].out

\* C15: under every interleaving of the threads, every call returns what it
\* returns when it runs alone.
C15_EveryCallAsIfAlone ==
    \A i \in DOMAIN log : log[i].out = Alone(log[i])


(***************************************************************************)
(* Properties of the EmbeddingService when I/O can fail, checked under     *)
(* SpecFault.                                                              *)
(***************************************************************************)
\* the last call was a store whose insert went through and one of whose
\* file writes failed
WriteFailed ==
    /\ lastOp.op = "store"
    /\ lastOp.io.add # "fail"
    /\ (lastOp.io.meta_write = "fail" \/ lastOp.io.index_write = "fail")

\* the numbers of entries a service started on the files would load
PersistedIndexSize(d) == Len(_load_or_create_index(d.resume_index, FALSE))
PersistedMetaSize(d) == Cardinality(DOMAIN _load_meta(d.resume_meta, FALSE))

\* C17: a failure to read or write an index file or a metadata file never
\* reaches the caller: construction over unreadable files returns with empty
\* structures, and a store one of whose writes failed returns normally.
C17_IOFailureNeverPropagates ==
    /\ lastOp.op = "init" => ~lastOp.raised
    /\ WriteFailed => ~lastOp.raised

\* C18: a store whose insert went through and one of whose file writes failed,
\* made when index and metadata had equally many entries in memory and in the
\* files, leaves them with equally many entries in memory and in the files,
\* and raises.
C18_PartialFailureKeepsSizesAndIsReported ==
    (/\ WriteFailed
     /\ Len(lastOp.before.resume_index) = Cardinality(DOMAIN lastOp.before.resume_meta)
     /\ PersistedIndexSize(lastOp.before.disk) = PersistedMetaSize(lastOp.before.disk))
        => /\ Len(resume_index) = Cardinality(DOMAIN resume_meta)
           /\ PersistedIndexSize(disk) = PersistedMetaSize(disk)
           /\ lastOp.raised

\* the last call was a store whose insert failed at both attempts
InsertFailed == lastOp.op = "store" /\ lastOp.io.add = "fail"

\* the store left the index, the metadata map and the files as they were
StoreLeftNothing ==
    /\ resume_index = lastOp.before.resume_index
    /\ resume_meta = lastOp.before.resume_meta
    /\ disk = lastOp.before.disk

\* C19 as stated: an insert that fails at both attempts is dropped silently,
\* store returns normally and the index is as it was.
C19_FailedInsertDroppedSilently ==
    InsertFailed => (~lastOp.raised /\ resume_index = lastOp.before.resume_index)

\* C19, amended: when the first insert fails the rebuild step (a no-op) is
\* called and the insert is made once more.  When that fails too the
\* exception reaches the caller of store, and the index, the metadata map and
\* the files are left as they were; when it succeeds the record is appended
\* to the index as it was and the store goes on as after a first success.
C19_FailedInsertRaises ==
    /\ InsertFailed => (lastOp.raised /\ StoreLeftNothing)
    /\ (lastOp.op = "store" /\ lastOp.io.add = "retry") =>
          /\ Len(resume_index) = Len(lastOp.before.resume_index) + 1
          /\ SubSeq(resume_index, 1, Len(resume_index) - 1) = lastOp.before.resume_index
          /\ resume_index[Len(resume_index)].id = _str_to_id(lastOp.record_id)
          /\ lastOp.raised = (lastOp.io.meta_write = "fail")

\* an insert that failed twice into an index that holds a record
C19_Witness ==
    /\ InsertFailed
    /\ lastOp.raised
    /\ Len(lastOp.before.resume_index) > 0


(***************************************************************************)
(* Properties of two writers on one persistence directory, checked under   *)
(* SpecRace.                                                               *)
(***************************************************************************)
\* both writers have completed a store and neither is inside one
BothStored == \A w \in Writers : writer[w].pc = "idle" /\ writer[w].stored >= 1

\* the ids a service started on the files would find in each of them
PersistedMetaIds == {k[2] : k \in DOMAIN _load_meta(disk.resume_meta, FALSE)}
PersistedIndexIds ==
    LET index == _load_or_create_index(disk.resume_index, FALSE)
    IN  {index[i].id : i \in DOMAIN index}

RaceIds == {_str_to_id(RaceRecord(w)[1]) : w \in Writers}

\* C16: two services constructed over the same directory that each stored a
\* distinct record leave a metadata file that lacks one of the two records
\* and an index file that lacks one of the two records, in whatever order
\* their steps were taken; in some orders the two files disagree.
C16_TwoWritersLoseARecord ==
    (BothStored /\ ~shared) =>
        /\ ~(RaceIds \subseteq PersistedMetaIds)
        /\ ~(RaceIds \subseteq PersistedIndexIds)

\* both stores completed, the metadata file holds the record of one writer
\* only and the index file the record of the other only
C16_Witness ==
    /\ BothStored
    /\ ~shared
    /\ PersistedMetaIds = {_str_to_id(RaceRecord(2)[1])}
    /\ PersistedIndexIds = {_str_to_id(RaceRecord(1)[1])}


(***************************************************************************)
(* Properties of _str_to_id, checked under SpecId.                         *)
(***************************************************************************)
\* C21: the numeric id of a record id is the same at every application, by
\* whichever service, and is at least 0 and less than 2^63.
C21_IdDeterministicAnd63Bit ==
    /\ \A i \in DOMAIN idLog :
          /\ \A k \in DOMAIN idLog[i].id : idLog[i].id[k] \in {HexDigits[d] : d \in DOMAIN HexDigits}
          /\ HexLess(idLog[i].id, TwoTo63)
    /\ \A i, j \in DOMAIN idLog :
          idLog[i].s = idLog[j].s => idLog[i].id = idLog[j].id

\* a record id whose digest starts with a digit above 7, hashed by both
\* services, with another record id hashed in between
C21_Witness ==
    /\ Len(idLog) = 3
    /\ idLog[1].s = idLog[3].s /\ idLog[1].service # idLog[3].service
    /\ idLog[2].s # idLog[1].s
    /\ HexVal(md5_hexdigest(idLog[1].s)[1]) > 7
    /\ Len(idLog[1].id) = 15


(***************************************************************************)
(* Further properties of the store, checked under SpecStore and SpecFault. *)
(***************************************************************************)
\* C28: whatever store calls came before, re-stores of a stored record_id
\* included, one find_similar_resumes call never returns the same record_id
\* twice: a stored record occupies at most one slot of the index.
C28_NoRecordReturnedTwice ==
    /\ lastOp.op = "query" =>
           \A i, j \in DOMAIN lastOp.results :
               i # j => lastOp.results[i].resume_id # lastOp.results[j].resume_id
    /\ \A i, j \in DOMAIN resume_index :
           i # j => resume_index[i].id # resume_index[j].id

\* C29: in every reachable state of the store, also after a restart in
\* which the metadata file could not be read and was replaced by an empty
\* map while the index file loaded, and after further stores, every result
\* of find_similar_resumes carries a resume_id that is not None and was
\* given to a store call.
C29_ResultsNameStoredResumes ==
    lastOp.op = "query" =>
        \A i \in DOMAIN lastOp.results :
            /\ lastOp.results[i].resume_id # "None"
            /\ \E s \in FaultStores : lastOp.results[i].resume_id = s[1]

(***************************************************************************)
(* Further properties of the scoring engine, checked under SpecScore.      *)
(***************************************************************************)
\* C26: no call of evaluate_resume or batch_evaluate changes the resume
\* dicts or the job dict it was given, nor an index, a metadata map or a
\* persisted file of either namespace.
C26_EvaluationLeavesInputsAndStore ==
    [][/\ sBatch' = sBatch
       /\ sJob' = sJob
       /\ <<resume_index, resume_meta, job_index, job_meta, disk>>' =
              <<resume_index, resume_meta, job_index, job_meta, disk>>]_vars

\* a resume without embeddings has been evaluated, and a batch of two
\* resumes has been returned in another order than the caller's list, which
\* still holds them in the caller's order and without embeddings
C26_Witness ==
    /\ sEval.returned
    /\ EvaluatedResume.embeddings = NoEmbedding
    /\ sBatchOut.returned
    /\ Len(sBatch) = 2
    /\ sBatch[1].id # sBatch[2].id
    /\ sBatchOut.evaluations[1].resume_id = sBatch[2].id
    /\ sBatchOut.evaluations[2].resume_id = sBatch[1].id
    /\ \A i \in DOMAIN sBatch : sBatch[i] \in ScoreResumes

\* the rank of a verdict tier: HIGH above MEDIUM above LOW
TierRank(verdict) ==
    CASE verdict = "HIGH" -> 3
      [] verdict = "MEDIUM" -> 2
      [] OTHER -> 1

\* C27: when HIGH_THRESHOLD >= MEDIUM_THRESHOLD, the verdict tiers of the
\* list returned by batch_evaluate never increase from one position to the
\* next: no MEDIUM or LOW precedes a HIGH, no LOW precedes a MEDIUM.
C27_BatchTiersNeverIncrease ==
    (sBatchOut.returned /\ RGe(cfg.HIGH_THRESHOLD, cfg.MEDIUM_THRESHOLD)) =>
        \A i \in 1..(Len(sBatchOut.evaluations) - 1) :
            TierRank(sBatchOut.evaluations[i].verdict) >=
                TierRank(sBatchOut.evaluations[i + 1].verdict)

(***************************************************************************)
(* Properties of the evaluation endpoints, checked under SpecApi.          *)
(***************************************************************************)
\* the last request named a resume or a job that does not exist, or was a
\* batch for which no resume was found
NothingToEvaluate ==
    \/ get_job_by_id(mongodb.jobs, response.job_id) = NoDict
    \/ /\ response.endpoint = "evaluate-resume"
       /\ get_resume_by_id(mongodb.resumes, response.resume_ids[1]) = NoDict
    \/ /\ response.endpoint = "evaluate-batch"
       /\ response.found = 0
       /\ response.status_code # 200
       /\ response.detail = "No resumes found for evaluation"

\* C30: evaluate-resume and evaluate-batch answer 404 when the resume or the
\* job id is unknown, or when no resume is found for a batch, and the stored
\* evaluations are then as they were before the request.
C30_UnknownIdsAnswer404 ==
    (response.endpoint # "none" /\ NothingToEvaluate) =>
        /\ response.status_code = 404
        /\ mongodb.evaluations = response.before

(***************************************************************************)
(* Further properties of calculate_hard_match, checked under SpecMatch.    *)
(***************************************************************************)
Percent(x) == RGe(x, RInt(0)) /\ RLe(x, RInt(100))

\* C24: for a job whose min_experience is a non-negative integer and whose
\* max_experience is an integer or not given, calculate_hard_match returns
\* skills_match, education_match, experience_match and certification_match in
\* [0, 100] and overall_hard_match = 0.5 * skills + 0.3 * experience +
\* 0.15 * education + 0.05 * certifications, itself in [0, 100].
C24_HardScoresInRange ==
    (mScores # NoResult /\ mJob.min_experience >= 0 /\ mJob.max_experience # None) =>
        /\ mScores.returned
        /\ Percent(mScores.skills_match)
        /\ Percent(mScores.education_match)
        /\ Percent(mScores.experience_match)
        /\ Percent(mScores.certification_match)
        /\ mScores.overall_hard_match =
              RAdd(RAdd(RMul(Rat(1, 2), mScores.skills_match),
                        RMul(Rat(3, 10), mScores.experience_match)),
                   RAdd(RMul(Rat(15, 100), mScores.education_match),
                        RMul(Rat(5, 100), mScores.certification_match)))
        /\ Percent(mScores.overall_hard_match)

\* a resume with more years than the job's minimum, all four scores at 100
C24_Witness ==
    /\ mScores.returned
    /\ mJob.max_experience # None
    /\ mJob.min_experience > 0
    /\ ResumeYears > mJob.min_experience
    /\ mScores.overall_hard_match = RInt(100)

\* the 4-digit numbers of a text
FourDigitYears(text) == {text[i].v : i \in {j \in DOMAIN text : text[j].k = "num" /\ text[j].v >= 1000 /\ text[j].v <= 9999}}

SetMax(S) == CHOOSE x \in S : \A y \in S : y <= x
SetMin(S) == CHOOSE x \in S : \A y \in S : x <= y

\* C25: the years of experience are those of the first explicit phrase that
\* matches; when none matches they are the span between the earliest and the
\* latest 4-digit year of the text if it mentions two distinct years, else 0.
C25_ExperienceYears ==
    mScores.returned =>
        LET text == mResume.raw_text
            explicit == \E p \in 1..3 : \E i \in DOMAIN text : PatternAt(p, text, i)
        IN  /\ explicit => mScores.resume_experience = _extract_experience_years(text)
            /\ ~explicit =>
                  mScores.resume_experience =
                      IF Cardinality(FourDigitYears(text)) >= 2
                      THEN SetMax(FourDigitYears(text)) - SetMin(FourDigitYears(text))
                      ELSE 0

(***************************************************************************)
(* Further properties of the EmbeddingService, checked under SpecStore.    *)
(***************************************************************************)
\* the step is a store call into namespace ns
StoreStep(ns) == nStores' = nStores + 1 /\ lastOp'.op = "store" /\ lastOp'.ns = ns

\* the resume side, and the job side, of the service and of the directory
ResumeSide == <<resume_index, resume_meta, disk.resume_index, disk.resume_meta>>
JobSide == <<job_index, job_meta, disk.job_index, disk.job_meta>>

\* the record ids stored in the job namespace and not in the resume namespace
JobOnlyIds ==
    {job_meta[k].job_id : k \in DOMAIN job_meta} \
        {resume_meta[k].resume_id : k \in DOMAIN resume_meta}

\* C22: a store into the resume namespace leaves the job index, the job
\* metadata map and the job files as they were, a store into the job
\* namespace leaves the resume index, map and files as they were, and a query
\* of the resume namespace returns no record stored in the job namespace only.
C22_NamespacesDisjoint ==
    [][/\ StoreStep("resume") => JobSide' = JobSide
       /\ StoreStep("job") => ResumeSide' = ResumeSide
       /\ lastOp'.op = "query" =>
             \A i \in DOMAIN lastOp'.results :
                 lastOp'.results[i].resume_id \notin JobOnlyIds']_vars

\* a query by a text that was stored as a job and not as a resume, answered
\* from a resume namespace that holds records
C22_Witness ==
    /\ lastOp.op = "query"
    /\ lastOp.q = QStr(TB)
    /\ Len(lastOp.results) > 0
    /\ \E i \in DOMAIN job_index : job_index[i].vec = generate_embeddings(TB)
    /\ \A i \in DOMAIN resume_index : resume_index[i].vec # generate_embeddings(TB)
    /\ JobOnlyIds # {}


(***************************************************************************)
(* Further properties of MatchingService, checked under SpecSoft.          *)
(***************************************************************************)
\* the calculate_soft_match calls that returned
SoftReturned == {i \in DOMAIN log : log[i].kind = "soft"}

\* C23: every calculate_soft_match call returns a scores dict in which
\* tfidf_similarity is 0 when the two texts give an empty vocabulary,
\* embedding_similarity is 0 when either embedding is None, keyword_density
\* is 0 when the job text yields no keyword, and overall_soft_match is
\* 0.3 * tfidf_similarity + 0.5 * embedding_similarity + 0.2 * keyword_density.
C23_SoftMatchDefaults ==
    \A i \in SoftReturned :
        LET e == log[i]
        IN  /\ Vocabulary(e.args[1], e.args[2]) = {} => e.out.tfidf_similarity = RInt(0)
            /\ (e.args[3] = NoEmbedding \/ e.args[4] = NoEmbedding)
                  => e.out.embedding_similarity = RInt(0)
            /\ Len(_extract_keywords(e.args[2])) = 0 => e.out.keyword_density = RInt(0)
            /\ e.out.overall_soft_match =
                  RAdd(RAdd(RMul(Rat(3, 10), e.out.tfidf_similarity),
                            RMul(Rat(5, 10), e.out.embedding_similarity)),
                       RMul(Rat(2, 10), e.out.keyword_density))

\* calls with an empty vocabulary, with a resume embedding that is None beside
\* texts that share terms, and with a job text without keywords have returned
C23_Witness ==
    /\ \E i \in SoftReturned : Vocabulary(log[i].args[1], log[i].args[2]) = {}
    /\ \E i \in SoftReturned :
          /\ log[i].args[3] = NoEmbedding
          /\ log[i].out.tfidf_similarity # RInt(0)
          /\ log[i].out.keyword_density # RInt(0)
    /\ \E i \in SoftReturned :
          /\ Len(_extract_keywords(log[i].args[2])) = 0
          /\ Vocabulary(log[i].args[1], log[i].args[2]) # {}

=============================================================================
